---- MODULE Spec2Model ----
(***************************************************************************)
(* Hash-chained custody ledger of the ICRC humanitarian ledger node:       *)
(* contracts/ledger.js (Blockchain), contracts/rules.js, contracts/asset.js*)
(* and the append handlers of server.js; and its prediction market:        *)
(* contracts/market.js (PredictionMarket), contracts/shares.js             *)
(* (ShareManager) and the market endpoints of server.js.                   *)
(*                                                                         *)
(* Digests are symbolic: SHA-256 is taken to be collision free, so a digest*)
(* is denoted by the tuple of values that were fed to it.  Timestamps are  *)
(* millisecond instants; toISOString renders them as fixed-width strings in*)
(* the same order, so an instant stands for its ISO string.                *)
(***************************************************************************)
EXTENDS Integers, Sequences, FiniteSets, TLC

VARIABLES store, clock, req, lastOp, ret, chain, edits, valid, report,
          markets, shareManager, txn, trades, settled,
          peers, requests, pushes,
          startup, remote

\* The state of the prediction-market subsystem (server.js: markets,
\* shareManager), the last market request, the number of trades made and the
\* pairs of participant and market that resolvePosition has been called for.
marketVars == <<markets, shareManager, txn, trades, settled>>

\* The gossip state of the node: its two peer lists (blockchain.peers of
\* contracts/ledger.js and the list peers of the gateway), the append requests
\* in flight and the blocks pushed to peers.
gossipVars == <<peers, requests, pushes>>

\* The network of the node: the progress of initializeSync, which the node
\* runs when it starts listening, and the block store of a second node that
\* runs the same program.
networkVars == <<startup, remote>>

\* The state of the ledger node.
ledgerVars == <<store, clock, req, lastOp, ret, chain, edits, valid, report>>

vars == <<store, clock, req, lastOp, ret, chain, edits, valid, report,
          markets, shareManager, txn, trades, settled,
          peers, requests, pushes,
          startup, remote>>

(***************************************************************************)
(* Bounds of the model.                                                    *)
(***************************************************************************)
MaxBlocks == 2
MaxClock == 1
MaxChain == 2
AuditLen == 3
MaxEdits == 2

(***************************************************************************)
(* Payloads (the MedicalKit object of contracts/asset.js).                 *)
(***************************************************************************)
\* The HQ key pair (hqPrivateKey, hqPublicKey) of the server.
HqKey == "hq"

\* identity/crypto-util.js signData: ECDSA signature over sha256(data).
signData(data, privateKey) == <<"sig", privateKey, data>>

\* identity/crypto-util.js verifySignature.
verifySignature(data, signature, publicKey) == signature = <<"sig", publicKey, data>>

\* The string both asset.js and rules.js sign and verify:
\* `${kitID}${type}${origin}${temperature}${location}${timestamp}`.
dataToSign(kit) ==
  <<kit.kitID, kit.type, kit.origin, kit.temperature, kit.location, kit.timestamp>>

\* contracts/asset.js MedicalKit constructor followed by toObject().
MedicalKit(kitID, type, origin, temperature, location, now, privateKey) ==
  LET fields == [kitID |-> kitID, type |-> type, origin |-> origin,
                 temperature |-> temperature, location |-> location,
                 timestamp |-> now]
  IN [kitID |-> kitID, type |-> type, origin |-> origin,
      temperature |-> temperature, location |-> location, timestamp |-> now,
      signature |-> signData(dataToSign(fields), privateKey),
      intelligence |-> <<>>, update |-> <<>>]

\* JSON.stringify(data): the members in insertion order; members that the
\* object does not have (intelligence, the update attribution) are left out.
\* A payload that is not a kit has the one member memo.
stringify(data) ==
  IF "kitID" \notin DOMAIN data THEN << <<"memo", data.memo>> >> ELSE
  <<  <<"kitID", data.kitID>>, <<"type", data.type>>, <<"origin", data.origin>>,
      <<"temperature", data.temperature>>, <<"location", data.location>>,
      <<"timestamp", data.timestamp>>, <<"signature", data.signature>> >>
  \o (IF data.intelligence = <<>> THEN <<>>
      ELSE << <<"intelligence", data.intelligence>> >>)
  \o (IF data.update = <<>> THEN <<>>
      ELSE << <<"lastUpdatedBy", data.update[1]>>, <<"lastUpdatedRole", data.update[2]>>,
              <<"lastUpdatedTimestamp", data.update[3]>>, <<"notes", data.update[4]>> >>)

\* Two payloads of one kit that differ in location only.
SamplePayloads ==
  { MedicalKit("KIT-1", "Emergency", "Geneva", 4, loc, 0, HqKey) : loc \in {"A", "B"} }

\* The payloads of three kits at two locations.
AppendPayloads ==
  { MedicalKit(id, "Emergency", "Geneva", 4, loc, 0, HqKey) :
      id \in {"KIT-1", "KIT-2", "KIT-3"}, loc \in {"A", "B"} }

(***************************************************************************)
(* Blockchain (contracts/ledger.js).  The store is the ledger-data folder: *)
(* a function from the number in a file name block_<n>.json to the block   *)
(* parsed from that file.                                                  *)
(***************************************************************************)
ZeroHash == <<"0000000000000000000000000000000000000000000000000000000000000000">>

EmptyStore == [i \in {} |-> 0]

\* sha256(index + timestamp + JSON.stringify(data) + previousHash): the digest is
\* denoted by what was concatenated (ISO timestamps and hex digests have a fixed
\* width, so the four parts can be read back from the concatenation).
calculateHash(index, timestamp, data, previousHash) ==
  <<index, timestamp, stringify(data), previousHash>>

Block(index, timestamp, data, previousHash, hash) ==
  [index |-> index, timestamp |-> timestamp, data |-> data,
   previousHash |-> previousHash, hash |-> hash]

MaxOf(S) == CHOOSE m \in S : \A n \in S : n <= m

\* getLatestBlock: the block in the highest numbered file (null, here
\* HasBlocks false, when there is none).
HasBlocks(s) == DOMAIN s # {}

getLatestBlock(s) == s[MaxOf(DOMAIN s)]

\* fs.writeFileSync(block_<block.index>.json, block)
writeBlock(s, block) ==
  [i \in (DOMAIN s) \cup {block.index} |-> IF i = block.index THEN block ELSE s[i]]

\* getFullChain: the block files sorted by the number in their name.
getFullChain(s) ==
  [k \in 1..Cardinality(DOMAIN s) |->
     s[CHOOSE i \in DOMAIN s : Cardinality({j \in DOMAIN s : j < i}) = k - 1]]

\* (mutant) the index of the latest block is taken again.
nextIndex_Latest(s) == IF HasBlocks(s) THEN getLatestBlock(s).index ELSE 0

nextIndex(s) == IF HasBlocks(s) THEN getLatestBlock(s).index + 1 ELSE 0

\* (mutant) the new block is not linked to the head.
nextPreviousHash_Unlinked(s) == ZeroHash

nextPreviousHash(s) == IF HasBlocks(s) THEN getLatestBlock(s).hash ELSE ZeroHash

\* The block literal of addBlock: `timestamp` and the timestamp fed to
\* calculateHash are two separate reads of the clock, t1 then t2.
newBlock(s, data, t1, t2) ==
  Block(nextIndex(s), t1, data, nextPreviousHash(s),
        calculateHash(nextIndex(s), t2, data, nextPreviousHash(s)))

addBlock(s, data, t1, t2) == writeBlock(s, newBlock(s, data, t1, t2))

hashOk(block) ==
  block.hash = calculateHash(block.index, block.timestamp, block.data, block.previousHash)

\* (mutant) the link to the previous block is not checked.
RECURSIVE validateFrom_NoLink(_, _)
validateFrom_NoLink(c, i) ==
  IF i > Len(c) THEN TRUE
  ELSE IF ~hashOk(c[i]) THEN FALSE
  ELSE validateFrom_NoLink(c, i + 1)

\* validateChain: the loop from position i on, returning at the first mismatch.
RECURSIVE validateFrom(_, _)
validateFrom(c, i) ==
  IF i > Len(c) THEN TRUE
  ELSE IF ~hashOk(c[i]) THEN FALSE
  ELSE IF i > 1 /\ c[i].previousHash # c[i - 1].hash THEN FALSE
  ELSE validateFrom(c, i + 1)

validateChain(c) == validateFrom(c, 1)

\* (mutant) the link is compared with the recomputed hash of the previous block.
RECURSIVE detectFrom_Recomputed(_, _)
detectFrom_Recomputed(c, i) ==
  IF i > Len(c) THEN <<>>
  ELSE IF ~hashOk(c[i])
    THEN <<[index |-> c[i].index, reason |-> "Invalid block hash"]>>
         \o detectFrom_Recomputed(c, i + 1)
  ELSE IF i > 1 /\ c[i].previousHash #
            calculateHash(c[i - 1].index, c[i - 1].timestamp, c[i - 1].data,
                          c[i - 1].previousHash)
    THEN <<[index |-> c[i].index, reason |-> "Invalid previous hash link"]>>
         \o detectFrom_Recomputed(c, i + 1)
  ELSE detectFrom_Recomputed(c, i + 1)

\* detectTampering: the same loop with `continue` in place of `return`.
RECURSIVE detectFrom(_, _)
detectFrom(c, i) ==
  IF i > Len(c) THEN <<>>
  ELSE IF ~hashOk(c[i])
    THEN <<[index |-> c[i].index, reason |-> "Invalid block hash"]>> \o detectFrom(c, i + 1)
  ELSE IF i > 1 /\ c[i].previousHash # c[i - 1].hash
    THEN <<[index |-> c[i].index, reason |-> "Invalid previous hash link"]>>
         \o detectFrom(c, i + 1)
  ELSE detectFrom(c, i + 1)

detectTampering(c) == detectFrom(c, 1)

clearLedger(s) == EmptyStore

\* newChain.forEach(block => writeFileSync(block_<block.index>.json, block))
RECURSIVE writeAll(_, _, _)
writeAll(s, c, i) ==
  IF i > Len(c) THEN s ELSE writeAll(writeBlock(s, c[i]), c, i + 1)

\* (mutant) a candidate of the local length is accepted too.
replaceChainAccepts_NotShorter(s, newChain) ==
  /\ ~(Len(newChain) < Len(getFullChain(s)))
  /\ validateChain(newChain)

replaceChainAccepts(s, newChain) ==
  /\ ~(Len(newChain) <= Len(getFullChain(s)))
  /\ validateChain(newChain)

replaceChain(s, newChain) ==
  IF replaceChainAccepts(s, newChain)
  THEN [ret |-> TRUE, store |-> writeAll(clearLedger(s), newChain, 1)]
  ELSE [ret |-> FALSE, store |-> s]

\* (mutant) the check for a block that is already stored is missing.
saveReceivedBlock_NoDuplicateCheck(s, block) ==
  IF ~hashOk(block) THEN [ret |-> FALSE, store |-> s]
  ELSE IF HasBlocks(s) /\ block.index <= getLatestBlock(s).index
    THEN [ret |-> FALSE, store |-> s]
  ELSE [ret |-> TRUE, store |-> writeBlock(s, block)]

saveReceivedBlock(s, block) ==
  IF ~hashOk(block) THEN [ret |-> FALSE, store |-> s]
  ELSE IF block.index \in DOMAIN s
    THEN [ret |-> s[block.index].hash = block.hash, store |-> s]
  ELSE IF HasBlocks(s) /\ block.index <= getLatestBlock(s).index
    THEN [ret |-> FALSE, store |-> s]
  ELSE [ret |-> TRUE, store |-> writeBlock(s, block)]

(***************************************************************************)
(* Prediction market: contracts/market.js (PredictionMarket) and           *)
(* contracts/shares.js (ShareManager).                                     *)
(*                                                                         *)
(* Numbers.  Pools and share counts are integers.  Credit amounts (cost,   *)
(* payout, credits, totalVolume, profit) are JavaScript numbers that carry *)
(* two decimals and may be Infinity, -Infinity or NaN after a division by a*)
(* zero pool: a number is a record with kind k ("fin", "inf", "nan") and   *)
(* value v, the count of hundredths for "fin" and the sign for "inf".      *)
(* Probabilities use the same records with v counting percents.            *)
(***************************************************************************)
Fin(n) == [k |-> "fin", v |-> n]

Infinity == [k |-> "inf", v |-> 1]

NaN == [k |-> "nan", v |-> 0]

\* -a
neg(a) == [k |-> a.k, v |-> 0 - a.v]

\* a + b
add(a, b) ==
  IF a.k = "nan" \/ b.k = "nan" THEN NaN
  ELSE IF a.k = "fin" /\ b.k = "fin" THEN Fin(a.v + b.v)
  ELSE IF a.k = "inf" /\ b.k = "inf" THEN (IF a.v = b.v THEN a ELSE NaN)
  ELSE IF a.k = "inf" THEN a ELSE b

\* a - b
sub(a, b) == add(a, neg(b))

\* a < b
less(a, b) ==
  /\ a.k # "nan" /\ b.k # "nan"
  /\ IF a.k = "fin" /\ b.k = "fin" THEN a.v < b.v
     ELSE IF a.k = "inf" THEN a.v = -1 /\ b # a
     ELSE b.v = 1

\* n / 0 for an integer n
divByZero(n) == IF n > 0 THEN Infinity ELSE IF n < 0 THEN neg(Infinity) ELSE NaN

\* n * x for an integer n and an x that is not finite
scale(n, x) ==
  IF x.k = "nan" \/ n = 0 THEN NaN ELSE IF n > 0 THEN x ELSE neg(x)

\* Math.round(n / d), d # 0: the nearest integer, a half rounds up.  On every
\* pool that the amounts below reach, no quotient falls on a half and the
\* double arithmetic of the source rounds to this same integer.
round(n, d) ==
  IF d > 0 THEN (2 * n + d) \div (2 * d)
  ELSE (2 * (0 - n) + (0 - d)) \div (2 * (0 - d))

\* An object with key k set to v.
put(f, k, v) == [x \in DOMAIN f \cup {k} |-> IF x = k THEN v ELSE f[x]]

\* An object without key k.
delete(f, k) == [x \in DOMAIN f \ {k} |-> f[x]]

NoShares == [YES |-> 0, NO |-> 0]

Other(outcome) == IF outcome = "YES" THEN "NO" ELSE "YES"

\* Initial liquidity of each pool and the default starting credits.
InitialLiquidity == 1000

DefaultCredits == 10000

\* new PredictionMarket(marketID, question, kitID, deadline, createdBy)
PredictionMarket(marketID, createdBy) ==
  [marketID |-> marketID, createdBy |-> createdBy,
   outcomes |-> [YES |-> InitialLiquidity, NO |-> InitialLiquidity],
   positions |-> [u \in {} |-> NoShares],
   status |-> "OPEN", winningOutcome |-> "null", totalVolume |-> Fin(0)]

\* (the price evaluated on the pool as it is after the trade)
calculatePrice_PostTrade(m, outcome, amount) ==
  LET newPool == m.outcomes[outcome] - amount
      otherPool == m.outcomes[Other(outcome)]
  IN IF newPool = 0 THEN scale(amount, divByZero(otherPool))
     ELSE Fin(round(amount * otherPool * 100, newPool))

\* calculatePrice(outcome, amount), in hundredths
calculatePrice(m, outcome, amount) ==
  LET currentPool == m.outcomes[outcome]
      otherPool == m.outcomes[Other(outcome)]
  IN IF currentPool = 0 THEN scale(amount, divByZero(otherPool))
     ELSE Fin(round(amount * otherPool * 100, currentPool))

\* (a buy that does not look at the status)
Market_buyShares_AnyStatus(m, userId, outcome, amount) ==
  LET cost == calculatePrice(m, outcome, amount)
      pos == IF userId \in DOMAIN m.positions THEN m.positions[userId] ELSE NoShares
  IN [threw |-> FALSE, error |-> "", cost |-> cost,
      market |-> [m EXCEPT !.outcomes[outcome] = @ - amount,
                           !.totalVolume = add(@, cost),
                           !.positions = put(@, userId,
                                             [pos EXCEPT ![outcome] = @ + amount])]]

\* PredictionMarket.buyShares(userId, outcome, amount)
Market_buyShares(m, userId, outcome, amount) ==
  IF m.status # "OPEN"
    THEN [threw |-> TRUE, error |-> "Market is not open for trading",
          cost |-> NaN, market |-> m]
  ELSE
    LET cost == calculatePrice(m, outcome, amount)
        pos == IF userId \in DOMAIN m.positions THEN m.positions[userId] ELSE NoShares
    IN [threw |-> FALSE, error |-> "", cost |-> cost,
        market |-> [m EXCEPT !.outcomes[outcome] = @ - amount,
                             !.totalVolume = add(@, cost),
                             !.positions = put(@, userId,
                                               [pos EXCEPT ![outcome] = @ + amount])]]

\* PredictionMarket.sellShares(userId, outcome, amount); cost is the payout
Market_sellShares(m, userId, outcome, amount) ==
  IF m.status # "OPEN"
    THEN [threw |-> TRUE, error |-> "Market is not open for trading",
          cost |-> NaN, market |-> m]
  ELSE IF userId \notin DOMAIN m.positions \/ m.positions[userId][outcome] < amount
    THEN [threw |-> TRUE, error |-> "Insufficient shares", cost |-> NaN, market |-> m]
  ELSE
    LET payout == calculatePrice(m, outcome, amount)
    IN [threw |-> FALSE, error |-> "", cost |-> payout,
        market |-> [m EXCEPT !.outcomes[outcome] = @ + amount,
                             !.totalVolume = add(@, payout),
                             !.positions[userId][outcome] = @ - amount]]

\* (a resolve without the status check)
Market_resolve_Unchecked(m, actualOutcome) ==
  [threw |-> FALSE, error |-> "",
   market |-> [m EXCEPT !.winningOutcome = actualOutcome, !.status = "RESOLVED"]]

\* PredictionMarket.resolve(actualOutcome)
Market_resolve(m, actualOutcome) ==
  IF m.status # "OPEN"
    THEN [threw |-> TRUE, error |-> "Market already closed", market |-> m]
  ELSE [threw |-> FALSE, error |-> "",
        market |-> [m EXCEPT !.winningOutcome = actualOutcome, !.status = "RESOLVED"]]

\* (the probability of YES taken from its own pool)
getProbabilities_OwnPool(m) ==
  LET totalPool == m.outcomes.YES + m.outcomes.NO
      yesProb == IF totalPool = 0 THEN divByZero(m.outcomes.YES)
                 ELSE Fin(round(m.outcomes.YES * 100, totalPool))
  IN [YES |-> yesProb, NO |-> sub(Fin(100), yesProb)]

\* getProbabilities(), in percents
getProbabilities(m) ==
  LET totalPool == m.outcomes.YES + m.outcomes.NO
      yesProb == IF totalPool = 0 THEN divByZero(m.outcomes.NO)
                 ELSE Fin(round(m.outcomes.NO * 100, totalPool))
  IN [YES |-> yesProb, NO |-> sub(Fin(100), yesProb)]

\* new ShareManager()
ShareManager ==
  [userBalances |-> [u \in {} |-> 0], userStats |-> [u \in {} |-> 0]]

\* initializeUser(userId, initialCredits)
\* initializeUser without the test for an existing account.
initializeUser_Always(sm, userId, initialCredits) ==
  [userBalances |-> put(sm.userBalances, userId,
                        [credits |-> Fin(initialCredits * 100),
                         holdings |-> [i \in {} |-> NoShares]]),
   userStats |-> put(sm.userStats, userId,
                     [correctPredictions |-> 0, totalPredictions |-> 0,
                      profit |-> Fin(0), totalTrades |-> 0])]

initializeUser(sm, userId, initialCredits) ==
  IF userId \in DOMAIN sm.userBalances THEN sm
  ELSE [userBalances |-> put(sm.userBalances, userId,
                             [credits |-> Fin(initialCredits * 100),
                              holdings |-> [i \in {} |-> NoShares]]),
        userStats |-> put(sm.userStats, userId,
                          [correctPredictions |-> 0, totalPredictions |-> 0,
                           profit |-> Fin(0), totalTrades |-> 0])]

\* ShareManager.buyShares(userId, market, outcome, amount)
ShareManager_buyShares(sm, m, userId, outcome, amount) ==
  LET sm1 == initializeUser(sm, userId, DefaultCredits)
      transaction == Market_buyShares(m, userId, outcome, amount)
      bal == sm1.userBalances[userId]
      held == IF m.marketID \in DOMAIN bal.holdings
                THEN bal.holdings[m.marketID] ELSE NoShares
  IN IF transaction.threw
       THEN [threw |-> TRUE, error |-> transaction.error, cost |-> NaN,
             market |-> m, shareManager |-> sm1]
     ELSE [threw |-> FALSE, error |-> "", cost |-> transaction.cost,
           market |-> transaction.market,
           shareManager |->
             [userBalances |->
                [sm1.userBalances EXCEPT ![userId] =
                   [credits |-> sub(bal.credits, transaction.cost),
                    holdings |-> put(bal.holdings, m.marketID,
                                     [held EXCEPT ![outcome] = @ + amount])]],
              userStats |->
                [sm1.userStats EXCEPT ![userId].totalTrades = @ + 1]]]

\* ShareManager.sellShares(userId, market, outcome, amount).  The profit line
\* adds payout - transaction.cost, and a sale has no cost field: NaN.
ShareManager_sellShares(sm, m, userId, outcome, amount) ==
  IF userId \notin DOMAIN sm.userBalances
    THEN [threw |-> TRUE, error |-> "User account not found", cost |-> NaN,
          market |-> m, shareManager |-> sm]
  ELSE
    LET transaction == Market_sellShares(m, userId, outcome, amount)
        bal == sm.userBalances[userId]
        credited == [sm.userBalances EXCEPT
                       ![userId].credits = add(@, transaction.cost)]
    IN IF transaction.threw
         THEN [threw |-> TRUE, error |-> transaction.error, cost |-> NaN,
               market |-> m, shareManager |-> sm]
       ELSE IF m.marketID \notin DOMAIN bal.holdings
         THEN [threw |-> TRUE, error |-> "TypeError", cost |-> NaN,
               market |-> transaction.market,
               shareManager |-> [sm EXCEPT !.userBalances = credited]]
       ELSE [threw |-> FALSE, error |-> "", cost |-> transaction.cost,
             market |-> transaction.market,
             shareManager |->
               [userBalances |->
                  [credited EXCEPT
                     ![userId].holdings[m.marketID][outcome] = @ - amount],
                userStats |->
                  [sm.userStats EXCEPT
                     ![userId].totalTrades = @ + 1,
                     ![userId].profit = NaN]]]

\* (every participant with shares counted as correct)
resolvePosition_AllCorrect(sm, userId, m) ==
  IF \/ userId \notin DOMAIN sm.userBalances
     \/ m.marketID \notin DOMAIN sm.userBalances[userId].holdings
    THEN sm
  ELSE
    LET holdings == sm.userBalances[userId].holdings[m.marketID]
        any == holdings.YES > 0 \/ holdings.NO > 0
    IN [userBalances |->
          [sm.userBalances EXCEPT ![userId].holdings = delete(@, m.marketID)],
        userStats |->
          [sm.userStats EXCEPT
             ![userId].correctPredictions = IF any THEN @ + 1 ELSE @,
             ![userId].totalPredictions = IF any THEN @ + 1 ELSE @]]

\* (a settlement that keeps the holdings entry)
resolvePosition_KeepsHoldings(sm, userId, m) ==
  IF \/ userId \notin DOMAIN sm.userBalances
     \/ m.marketID \notin DOMAIN sm.userBalances[userId].holdings
    THEN sm
  ELSE
    LET holdings == sm.userBalances[userId].holdings[m.marketID]
        winningShares == holdings[m.winningOutcome]
        losingShares == holdings[Other(m.winningOutcome)]
    IN [sm EXCEPT
          !.userStats[userId].correctPredictions =
             IF winningShares > 0 THEN @ + 1 ELSE @,
          !.userStats[userId].totalPredictions =
             IF winningShares > 0 \/ losingShares > 0 THEN @ + 1 ELSE @]

\* resolvePosition(userId, market)
resolvePosition(sm, userId, m) ==
  IF \/ userId \notin DOMAIN sm.userBalances
     \/ m.marketID \notin DOMAIN sm.userBalances[userId].holdings
    THEN sm
  ELSE
    LET holdings == sm.userBalances[userId].holdings[m.marketID]
        winningShares == holdings[m.winningOutcome]
        losingShares == holdings[Other(m.winningOutcome)]
        stats == sm.userStats[userId]
    IN [userBalances |->
          [sm.userBalances EXCEPT ![userId].holdings = delete(@, m.marketID)],
        userStats |->
          [sm.userStats EXCEPT ![userId] =
             [stats EXCEPT
                !.correctPredictions =
                   IF winningShares > 0 THEN @ + 1 ELSE @,
                !.totalPredictions =
                   IF winningShares > 0 \/ losingShares > 0 THEN @ + 1 ELSE @]]]

\* The request that was handled last.
NoTxn ==
  [op |-> "none", marketID |-> "", userId |-> "", outcome |-> "", amount |-> 0,
   threw |-> FALSE, error |-> "", cost |-> NaN, again |-> FALSE]

InitMarkets ==
  /\ markets = [i \in {} |-> 0]
  /\ shareManager = ShareManager
  /\ txn = NoTxn
  /\ trades = 0
  /\ settled = {}

(***************************************************************************)
(* Gossip state.  A request is served in steps, one for each stretch of    *)
(* its handler between two awaits:                                         *)
(*   pc      "idle" (not arrived), "intelligence" (/add-kit awaiting the   *)
(*           intelligence service), "broadcast" (addBlock awaiting         *)
(*           broadcastBlock), "appended" (addBlock has returned) or "done" *)
(*   block   the block its addBlock call has written                       *)
(*   status  the HTTP status of its response, 0 before the response        *)
(*   sent    the block it has put in its response and gossiped             *)
(* A push is one axios.post of a block to a peer: the request that made    *)
(* it, the peer address, its position k in the peer list, the endpoint,    *)
(* the index of the block and "sent", "ok" (answered) or "error" (failed). *)
(***************************************************************************)
MaxRequests == 2

NoBlock == <<>>

Idle == [pc |-> "idle", path |-> "", block |-> NoBlock, status |-> 0, sent |-> NoBlock]

InitGossip ==
  /\ peers = [blockchain |-> <<>>, gateway |-> <<>>]
  /\ requests = [r \in 1..MaxRequests |-> Idle]
  /\ pushes = {}

\* initializeSync has not been called; the second node has no blocks.
NotStarted == [pc |-> "off", knownPeers |-> <<>>, contacted |-> <<>>, fate |-> "none"]

InitNetwork ==
  /\ startup = NotStarted
  /\ remote = EmptyStore

(***************************************************************************)
(* Specification SpecAppend: a node that only appends.                     *)
(*   req     the call a peer has made and the node has not served yet, or  *)
(*           (op "none") the number of calls served for the last one       *)
(*   lastOp  the operation that returned last; ret  what the last          *)
(*           saveReceivedBlock or replaceChain call returned               *)
(***************************************************************************)
NoReq == [op |-> "none", arg |-> <<>>, left |-> 0, done |-> 0]

Init ==
  /\ store = EmptyStore
  /\ clock = 0
  /\ req = NoReq
  /\ lastOp = "init"
  /\ ret = FALSE
  /\ chain = <<>>
  /\ edits = <<>>
  /\ valid = TRUE
  /\ report = <<>>
  /\ InitMarkets
  /\ InitGossip
  /\ InitNetwork

\* addBlock(data); the clock may advance before each of its two reads.
AddBlock(data) ==
  /\ nextIndex(store) < MaxBlocks
  /\ \E t1 \in clock..MaxClock : \E t2 \in t1..MaxClock :
       /\ store' = addBlock(store, data, t1, t2)
       /\ clock' = t2
  /\ lastOp' = "addBlock"
  /\ UNCHANGED <<req, ret, chain, edits, valid, report, marketVars, gossipVars, networkVars>>

NextAppend == \E data \in AppendPayloads : AddBlock(data)

SpecAppend == Init /\ [][NextAppend]_vars

\* C1: after any sequence of addBlock calls on an empty store every stored
\* block's hash is the digest of its own index, timestamp, data and previousHash,
\* so validateChain(getFullChain()) is true, however the clock advances.
C1_AppendedChainValid ==
  /\ \A i \in DOMAIN store : hashOk(store[i])
  /\ validateChain(getFullChain(store))

\* The blocks of a store are numbered 0, 1, 2, ... and each is linked to the
\* one before it, the first to the sentinel.
Linked(s) ==
  LET c == getFullChain(s)
  IN \A k \in 1..Len(c) :
       /\ c[k].index = k - 1
       /\ k = 1 => c[k].previousHash = ZeroHash
       /\ k > 1 => c[k].previousHash = c[k - 1].hash

\* C2: every addBlock call of a sequence of calls on an empty store adds one
\* block, so that after N calls the indices are exactly 0..N-1, block 0 points
\* to the 64-zero sentinel and every later block to the hash of its predecessor.
C2_AppendLinksIndices ==
  [][lastOp' = "addBlock" =>
       /\ Cardinality(DOMAIN store') = Cardinality(DOMAIN store) + 1
       /\ DOMAIN store' = 0..(Cardinality(DOMAIN store') - 1)
       /\ Linked(store')]_vars

C2_Witness ==
  /\ lastOp = "addBlock"
  /\ Cardinality(DOMAIN store) >= 2

(***************************************************************************)
(* Specification Spec: one node on which local appends, blocks pushed by   *)
(* peers and chain replacements interleave.  Each call runs to its return  *)
(* without yielding (all three are synchronous up to the file writes).     *)
(***************************************************************************)
\* The block its own digest describes: b with the timestamp that was hashed.
asHashed(b) == Block(b.hash[1], b.hash[2], b.data, b.hash[4], b.hash)

\* A block as a peer builds it: any index and payload, linked to the local head
\* or to nothing, with a digest that is right or (the sentinel) wrong; or a block
\* of the local store pushed back, as stored or as its digest describes it.
ReceivedBlocks(s) ==
  { Block(i, 0, d, p, IF good THEN calculateHash(i, 0, d, p) ELSE ZeroHash) :
      i \in 0..(MaxBlocks - 1), d \in SamplePayloads,
      p \in {ZeroHash, nextPreviousHash(s)}, good \in BOOLEAN }
  \cup {s[i] : i \in DOMAIN s}
  \cup {asHashed(s[i]) : i \in DOMAIN s}

\* The chains of n blocks a peer can build: internally linked and hashed, each
\* block numbered by its position or, wrongly, as a genesis block.
RECURSIVE BuiltChains(_)
BuiltChains(n) ==
  IF n = 0 THEN {<<>>}
  ELSE { Append(c, LET p == IF Len(c) = 0 THEN ZeroHash ELSE c[Len(c)].hash
                   IN Block(i, 0, d, p, calculateHash(i, 0, d, p))) :
           c \in BuiltChains(n - 1), i \in {n - 1, 0}, d \in SamplePayloads }

\* The payload of block k replaced by another one, its hash left as it was.
tamper(c, k) ==
  [c EXCEPT ![k].data = CHOOSE d \in SamplePayloads : d # c[k].data]

PeerChains ==
  LET built == UNION {BuiltChains(n) : n \in 0..MaxChain}
  IN built \cup {tamper(c, k) : c \in BuiltChains(MaxChain), k \in 1..MaxChain}

CandidateChains(s) == PeerChains \cup {getFullChain(s)}

\* A peer pushes a block, once or (by both gossip paths, or again) twice.
PushBlock(block, times) ==
  /\ req.op = "none"
  /\ req' = [op |-> "saveReceivedBlock", arg |-> block, left |-> times, done |-> 0]
  /\ UNCHANGED <<store, clock, lastOp, ret, chain, edits, valid, report, marketVars, gossipVars, networkVars>>

\* A caller (syncWithPeer) hands over the chain a peer has served.
OfferChain(newChain) ==
  /\ req.op = "none"
  /\ req' = [op |-> "replaceChain", arg |-> newChain, left |-> 1, done |-> 0]
  /\ UNCHANGED <<store, clock, lastOp, ret, chain, edits, valid, report, marketVars, gossipVars, networkVars>>

\* The request after one more call of it has returned.
served(r) ==
  IF r.left > 1 THEN [r EXCEPT !.left = r.left - 1, !.done = r.done + 1]
  ELSE [op |-> "none", arg |-> <<>>, left |-> 0, done |-> r.done + 1]

SaveReceivedBlock ==
  /\ req.op = "saveReceivedBlock"
  /\ store' = saveReceivedBlock(store, req.arg).store
  /\ ret' = saveReceivedBlock(store, req.arg).ret
  /\ lastOp' = "saveReceivedBlock"
  /\ req' = served(req)
  /\ UNCHANGED <<clock, chain, edits, valid, report, marketVars, gossipVars, networkVars>>

ReplaceChain ==
  /\ req.op = "replaceChain"
  /\ store' = replaceChain(store, req.arg).store
  /\ ret' = replaceChain(store, req.arg).ret
  /\ lastOp' = "replaceChain"
  /\ req' = served(req)
  /\ UNCHANGED <<clock, chain, edits, valid, report, marketVars, gossipVars, networkVars>>

Next ==
  \/ \E data \in SamplePayloads : AddBlock(data)
  \/ \E block \in ReceivedBlocks(store), times \in 1..2 : PushBlock(block, times)
  \/ \E newChain \in CandidateChains(store) : OfferChain(newChain)
  \/ SaveReceivedBlock
  \/ ReplaceChain

Spec == Init /\ [][Next]_vars

\* The step in which the pending call of operation op is served.
Serves(op) == req.op = op /\ lastOp' = op /\ req'.left # req.left

\* A chain whose every block carries the digest of its own fields and, but for
\* the first, the hash of the block before it.
IsValidChain(c) ==
  \A k \in 1..Len(c) :
    /\ c[k].hash = calculateHash(c[k].index, c[k].timestamp, c[k].data, c[k].previousHash)
    /\ k > 1 => c[k].previousHash = c[k - 1].hash

\* C3: under every interleaving of addBlock, saveReceivedBlock and replaceChain
\* the local store's indices are contiguous from 0 and every block but the first
\* carries the hash of its predecessor.
C3_StoreContiguousLinked ==
  /\ DOMAIN store = 0..(Cardinality(DOMAIN store) - 1)
  /\ \A i \in DOMAIN store : i > 0 => store[i].previousHash = store[i - 1].hash

\* C4: replaceChain(candidate) returns true iff the candidate has strictly more
\* blocks than the local store and is a valid chain.
C4_ReplaceIffLongerValid ==
  [][Serves("replaceChain") =>
       (ret' <=> /\ Len(req.arg) > Cardinality(DOMAIN store)
                 /\ IsValidChain(req.arg))]_vars

C4_Witness ==
  /\ lastOp = "replaceChain"
  /\ ret
  /\ Cardinality(DOMAIN store) = MaxChain

\* C5: when replaceChain(candidate) returns true getFullChain() is the candidate,
\* block for block; when it returns false the store is unchanged.
C5_ReplaceInstallsCandidate ==
  [][Serves("replaceChain") =>
       IF ret' THEN getFullChain(store') = req.arg ELSE store' = store]_vars

\* C8: saveReceivedBlock called twice with the identical hash-valid block returns
\* true both times, and the second call leaves the store, with one block at that
\* index, as the first call left it.
C8_SecondSaveOfSameBlock ==
  [][(Serves("saveReceivedBlock") /\ req.done = 1 /\ lastOp = "saveReceivedBlock"
        /\ hashOk(req.arg)) =>
       /\ ret
       /\ ret'
       /\ store' = store
       /\ req.arg.index \in DOMAIN store']_vars

\* C8 as amended: when the first of the two calls returned true, so does the
\* second, which leaves the store, with one block at that index, unchanged.
C8_SecondSaveAfterAccept ==
  [][(Serves("saveReceivedBlock") /\ req.done = 1 /\ lastOp = "saveReceivedBlock"
        /\ hashOk(req.arg) /\ ret) =>
       /\ ret'
       /\ store' = store
       /\ req.arg.index \in DOMAIN store'
       /\ store'[req.arg.index].hash = req.arg.hash]_vars

\* The second of two calls with one block has returned true.
C8_Witness ==
  /\ lastOp = "saveReceivedBlock"
  /\ req.op = "none"
  /\ req.done = 2
  /\ ret

\* C9: saveReceivedBlock returns false and leaves the store unchanged when the
\* block's hash does not match its fields, or a block with another hash is stored
\* at its index, or its index is not above the latest index and the block stored
\* at its index, if any, is not that block.
C9_RejectsStaleAndConflicting ==
  [][(/\ Serves("saveReceivedBlock")
      /\ \/ ~hashOk(req.arg)
         \/ req.arg.index \in DOMAIN store /\ store[req.arg.index].hash # req.arg.hash
         \/ /\ HasBlocks(store)
            /\ req.arg.index <= getLatestBlock(store).index
            /\ ~(req.arg.index \in DOMAIN store /\ store[req.arg.index] = req.arg))
     => (~ret' /\ store' = store)]_vars

(***************************************************************************)
(* Specification SpecAudit: a valid chain held in memory is edited and     *)
(* audited (GET /audit runs detectTampering, replaceChain validateChain).  *)
(*   chain  the chain; edits  the edits made to it so far;                 *)
(*   valid, report  what validateChain and detectTampering returned last   *)
(***************************************************************************)
InitAudit ==
  /\ store = EmptyStore
  /\ clock = 0
  /\ req = NoReq
  /\ lastOp = "init"
  /\ ret = FALSE
  /\ chain \in UNION {BuiltChains(n) : n \in 1..AuditLen}
  /\ edits = <<>>
  /\ valid = TRUE
  /\ report = <<>>
  /\ InitMarkets
  /\ InitGossip
  /\ InitNetwork

\* The payload of block k is changed, its hash is not.
Tamper(k) ==
  /\ Len(edits) < MaxEdits
  /\ chain' = tamper(chain, k)
  /\ edits' = Append(edits, <<"tamper", k>>)
  /\ lastOp' = "tamper"
  /\ UNCHANGED <<store, clock, req, ret, valid, report, marketVars, gossipVars, networkVars>>

\* The payload of block k is changed and its hash recomputed.
forge(c, k) ==
  LET d == CHOOSE x \in SamplePayloads : x # c[k].data
  IN [c EXCEPT ![k].data = d,
               ![k].hash = calculateHash(c[k].index, c[k].timestamp, d, c[k].previousHash)]

Forge(k) ==
  /\ Len(edits) < MaxEdits
  /\ chain' = forge(chain, k)
  /\ edits' = Append(edits, <<"forge", k>>)
  /\ lastOp' = "forge"
  /\ UNCHANGED <<store, clock, req, ret, valid, report, marketVars, gossipVars, networkVars>>

Audit ==
  /\ valid' = validateChain(chain)
  /\ report' = detectTampering(chain)
  /\ lastOp' = "audit"
  /\ UNCHANGED <<store, clock, req, ret, chain, edits, marketVars, gossipVars, networkVars>>

NextAudit ==
  \/ \E k \in 1..Len(chain) : Tamper(k)
  \/ \E k \in 1..Len(chain) : Forge(k)
  \/ Audit

SpecAudit == InitAudit /\ [][NextAudit]_vars

BadPositions(c) ==
  {k \in 1..Len(c) : \/ c[k].hash # calculateHash(c[k].index, c[k].timestamp,
                                                  c[k].data, c[k].previousHash)
                     \/ k > 1 /\ c[k].previousHash # c[k - 1].hash}

\* The j-th smallest member of a set of numbers.
Nth(S, j) == CHOOSE x \in S : Cardinality({y \in S : y < x}) = j - 1

KitIDs == {"KIT-1", "KIT-2"}
Temperatures == {1, 4, 9}
Locations == {"", "A", "B"}
Roles == {"admin", "transporter", "viewer"}
Notes == {"", "checked"}

\* contracts/rules.js validateMedicalKit(kit, publicKey).isValid
validateMedicalKit(kit, publicKey) ==
  /\ ~(kit.temperature < 2 \/ kit.temperature > 8)
  /\ kit.signature # <<>>
  /\ verifySignature(dataToSign(kit), kit.signature, publicKey)

\* What intelligenceService.getIntelligenceForShipment returns for a shipment.
intelligenceFor(kitID) == <<kitID, "risk">>

\* POST /add-kit: 403 unless admin, 400 on a missing field or a failed
\* validation, else the signed kit is appended.  The kit's timestamp t0 and the
\* two reads t1, t2 of addBlock are successive reads of the clock.
AddKit(role, kitID, temperature, location) ==
  /\ nextIndex(store) < MaxBlocks
  /\ lastOp' = "addKit"
  /\ UNCHANGED <<req, chain, edits, valid, report, marketVars, gossipVars, networkVars>>
  /\ \E t0 \in clock..MaxClock : \E t1 \in t0..MaxClock : \E t2 \in t1..MaxClock :
       LET newKit == MedicalKit(kitID, "Emergency", "Geneva", temperature, location,
                                t0, HqKey)
           kitData == [newKit EXCEPT !.intelligence = intelligenceFor(kitID)]
       IN IF role # "admin" \/ location = "" \/ ~validateMedicalKit(newKit, HqKey)
          THEN /\ ret' = FALSE
               /\ clock' = t0
               /\ store' = store
          ELSE /\ ret' = TRUE
               /\ clock' = t2
               /\ store' = addBlock(store, kitData, t1, t2)

\* The most recent block of a kit: the first hit of the scan of the block files
\* in descending order.
kitBlocks(s, kitID) == {i \in DOMAIN s : s[i].data.kitID = kitID}

\* POST /update-location: 403 unless transporter or admin, 400 without a new
\* location, 404 for an unknown kit, else a copy of the kit's latest payload
\* with the new location (and temperature, if one is given) is appended.
UpdateLocation(role, kitID, newLocation, hasTemperature, temperature, notes) ==
  /\ nextIndex(store) < MaxBlocks
  /\ lastOp' = "updateLocation"
  /\ UNCHANGED <<req, chain, edits, valid, report, marketVars, gossipVars, networkVars>>
  /\ IF (role # "transporter" /\ role # "admin") \/ newLocation = ""
        \/ kitBlocks(store, kitID) = {}
     THEN /\ ret' = FALSE
          /\ UNCHANGED <<store, clock>>
     ELSE \E tu \in clock..MaxClock : \E t1 \in tu..MaxClock : \E t2 \in t1..MaxClock :
            LET existing == store[MaxOf(kitBlocks(store, kitID))].data
                oldNotes == IF existing.update = <<>> THEN "" ELSE existing.update[4]
                updatedKitData ==
                  [existing EXCEPT
                     !.location = newLocation,
                     !.temperature = IF hasTemperature THEN temperature
                                     ELSE existing.temperature,
                     !.update = <<"user@icrc.org", role, tu,
                                  IF notes # "" THEN notes ELSE oldNotes>>]
            IN /\ ret' = TRUE
               /\ clock' = t2
               /\ store' = addBlock(store, updatedKitData, t1, t2)

NextGateway ==
  \/ \E role \in Roles, kitID \in KitIDs, temperature \in Temperatures,
        location \in Locations : AddKit(role, kitID, temperature, location)
  \/ \E role \in Roles, kitID \in KitIDs, newLocation \in Locations,
        hasTemperature \in BOOLEAN, temperature \in Temperatures, notes \in Notes :
        UpdateLocation(role, kitID, newLocation, hasTemperature, temperature, notes)

SpecGateway == Init /\ [][NextGateway]_vars

\* C10: every block the append paths /add-kit and /update-location have written
\* carries a payload with a temperature within 2..8 and a signature that
\* verifies over its own kitID, type, origin, temperature, location and timestamp.
C10_StoredPayloadsValidated ==
  \A i \in DOMAIN store :
    /\ store[i].data.temperature \in 2..8
    /\ verifySignature(
         <<store[i].data.kitID, store[i].data.type, store[i].data.origin,
           store[i].data.temperature, store[i].data.location, store[i].data.timestamp>>,
         store[i].data.signature, HqKey)

(***************************************************************************)
(* Specification SpecMarket: the market contracts called directly, as      *)
(* test-prediction.js calls them.                                          *)
(*   markets       the PredictionMarket objects by marketID                *)
(*   shareManager  the ShareManager (userBalances, userStats)              *)
(*   txn           the call handled last and what it returned or threw;    *)
(*                 again: resolvePosition had been called for the pair     *)
(*   trades        the number of trades that went through                  *)
(***************************************************************************)
MaxTrades == 2

MarketIDs == {"MKT-001"}

Users == {"user_alice", "user_bob"}

Outcomes == {"YES", "NO"}

\* The share amounts of test-prediction.js.
Lots == {200, 300}

Txn(op, marketID, userId, outcome, amount, r) ==
  [op |-> op, marketID |-> marketID, userId |-> userId, outcome |-> outcome,
   amount |-> amount, threw |-> r.threw, error |-> r.error, cost |-> r.cost,
   again |-> FALSE]

Returned == [threw |-> FALSE, error |-> "", cost |-> NaN]

\* const market = new PredictionMarket(...)
NewMarket(marketID, createdBy) ==
  /\ marketID \notin DOMAIN markets
  /\ markets' = put(markets, marketID, PredictionMarket(marketID, createdBy))
  /\ txn' = Txn("new", marketID, createdBy, "", 0, Returned)
  /\ UNCHANGED <<shareManager, trades, settled, ledgerVars, gossipVars, networkVars>>

\* shareManager.initializeUser(userId, initialCredits)
InitializeUser(userId, initialCredits) ==
  /\ shareManager' = initializeUser(shareManager, userId, initialCredits)
  /\ txn' = Txn("initializeUser", "", userId, "", initialCredits, Returned)
  /\ UNCHANGED <<markets, trades, settled, ledgerVars, gossipVars, networkVars>>

\* shareManager.buyShares(userId, market, outcome, amount)
BuyShares(userId, marketID, outcome, amount) ==
  /\ marketID \in DOMAIN markets
  /\ LET r == ShareManager_buyShares(shareManager, markets[marketID],
                                     userId, outcome, amount)
     IN /\ trades < MaxTrades \/ r.threw
        /\ markets' = [markets EXCEPT ![marketID] = r.market]
        /\ shareManager' = r.shareManager
        /\ txn' = Txn("buyShares", marketID, userId, outcome, amount, r)
        /\ trades' = IF r.threw THEN trades ELSE trades + 1
  /\ UNCHANGED <<settled, ledgerVars, gossipVars, networkVars>>

\* shareManager.sellShares(userId, market, outcome, amount)
SellShares(userId, marketID, outcome, amount) ==
  /\ marketID \in DOMAIN markets
  /\ LET r == ShareManager_sellShares(shareManager, markets[marketID],
                                      userId, outcome, amount)
     IN /\ trades < MaxTrades \/ r.threw
        /\ markets' = [markets EXCEPT ![marketID] = r.market]
        /\ shareManager' = r.shareManager
        /\ txn' = Txn("sellShares", marketID, userId, outcome, amount, r)
        /\ trades' = IF r.threw THEN trades ELSE trades + 1
  /\ UNCHANGED <<settled, ledgerVars, gossipVars, networkVars>>

\* market.resolve(actualOutcome)
Resolve(marketID, actualOutcome) ==
  /\ marketID \in DOMAIN markets
  /\ LET r == Market_resolve(markets[marketID], actualOutcome)
     IN /\ markets' = [markets EXCEPT ![marketID] = r.market]
        /\ txn' = Txn("resolve", marketID, "", actualOutcome, 0,
                      [threw |-> r.threw, error |-> r.error, cost |-> NaN])
  /\ UNCHANGED <<shareManager, trades, settled, ledgerVars, gossipVars, networkVars>>

\* shareManager.resolvePosition(userId, market), market resolved
ResolvePosition(userId, marketID) ==
  /\ marketID \in DOMAIN markets
  /\ markets[marketID].status = "RESOLVED"
  /\ shareManager' = resolvePosition(shareManager, userId, markets[marketID])
  /\ txn' = [Txn("resolvePosition", marketID, userId, "", 0, Returned)
               EXCEPT !.again = <<userId, marketID>> \in settled]
  /\ settled' = settled \cup {<<userId, marketID>>}
  /\ UNCHANGED <<markets, trades, ledgerVars, gossipVars, networkVars>>

\* The participants of a loop over Object.keys(userBalances), in order.
RECURSIVE resolveAll(_, _, _)
resolveAll(sm, users, m) ==
  IF users = {} THEN sm
  ELSE LET u == CHOOSE x \in users : TRUE
       IN resolveAll(resolvePosition(sm, u, m), users \ {u}, m)

\* POST /api/markets/:id/resolve
PostResolve(id, outcome) ==
  /\ IF id \notin DOMAIN markets
       THEN /\ txn' = Txn("POST resolve", id, "", outcome, 0,
                          [threw |-> TRUE, error |-> "Market not found", cost |-> NaN])
            /\ UNCHANGED <<markets, shareManager, settled>>
     ELSE IF outcome \notin {"YES", "NO"}
       THEN /\ txn' = Txn("POST resolve", id, "", outcome, 0,
                          [threw |-> TRUE, error |-> "Invalid outcome. Must be YES or NO",
                           cost |-> NaN])
            /\ UNCHANGED <<markets, shareManager, settled>>
     ELSE LET r == Market_resolve(markets[id], outcome)
          IN /\ markets' = [markets EXCEPT ![id] = r.market]
             /\ txn' = Txn("POST resolve", id, "", outcome, 0,
                           [threw |-> r.threw, error |-> r.error, cost |-> NaN])
             /\ IF r.threw THEN UNCHANGED <<shareManager, settled>>
                ELSE /\ shareManager' =
                          resolveAll(shareManager, DOMAIN shareManager.userBalances,
                                     r.market)
                     /\ settled' =
                          settled \cup
                            {<<u, id>> : u \in DOMAIN shareManager.userBalances}
  /\ UNCHANGED <<trades, ledgerVars, gossipVars, networkVars>>

NextMarket ==
  \/ \E marketID \in MarketIDs : NewMarket(marketID, "admin")
  \/ \E userId \in Users : InitializeUser(userId, DefaultCredits)
  \/ \E userId \in Users, marketID \in MarketIDs, outcome \in Outcomes,
        amount \in Lots : BuyShares(userId, marketID, outcome, amount)
  \/ \E userId \in Users, marketID \in MarketIDs, outcome \in Outcomes,
        amount \in Lots : SellShares(userId, marketID, outcome, amount)
  \/ \E marketID \in MarketIDs, outcome \in Outcomes : Resolve(marketID, outcome)
  \/ \E userId \in Users, marketID \in MarketIDs : ResolvePosition(userId, marketID)
  \/ \E marketID \in MarketIDs, outcome \in Outcomes : PostResolve(marketID, outcome)

SpecMarket == Init /\ [][NextMarket]_vars

\* C11: a market's status changes only from OPEN to RESOLVED; once RESOLVED its
\* status and winningOutcome never change again and a further resolve call
\* throws and leaves the market as it was; winningOutcome is null exactly
\* while the status is OPEN.
C11_StatusOpenToResolvedOnce ==
  /\ [](\A i \in DOMAIN markets :
          /\ markets[i].status \in {"OPEN", "RESOLVED"}
          /\ markets[i].winningOutcome = "null" <=> markets[i].status = "OPEN")
  /\ [][\A i \in DOMAIN markets :
          /\ markets'[i].status # markets[i].status
               => markets[i].status = "OPEN" /\ markets'[i].status = "RESOLVED"
          /\ markets[i].status = "RESOLVED"
               => /\ markets'[i].status = "RESOLVED"
                  /\ markets'[i].winningOutcome = markets[i].winningOutcome
          /\ (txn'.op = "resolve" /\ txn'.marketID = i
                /\ markets[i].status = "RESOLVED")
               => txn'.threw /\ markets'[i] = markets[i]]_vars

\* A resolve call on a market that was resolved with the other outcome has thrown.
C11_Witness ==
  /\ txn.op = "resolve" /\ txn.threw
  /\ \E i \in DOMAIN markets :
       /\ txn.marketID = i
       /\ markets[i].status = "RESOLVED"
       /\ markets[i].winningOutcome # txn.outcome

(***************************************************************************)
(* Specification SpecTrade: one participant trading on one market, with    *)
(* amounts that reach the small, the empty and the overdrawn pool.         *)
(***************************************************************************)
Amounts == {1, 200, 900, 1000, 1100}

StartingCredits == {250, DefaultCredits}

NextTrade ==
  \/ \E marketID \in MarketIDs : NewMarket(marketID, "admin")
  \/ \E c \in StartingCredits : InitializeUser("user_alice", c)
  \/ \E marketID \in MarketIDs, outcome \in Outcomes, amount \in Amounts :
       BuyShares("user_alice", marketID, outcome, amount)
  \/ \E marketID \in MarketIDs, outcome \in Outcomes, amount \in Amounts :
       SellShares("user_alice", marketID, outcome, amount)

SpecTrade == Init /\ [][NextTrade]_vars

\* C12: in every reachable market state both outcome pools are non-negative
\* (a buy of at least the whole pool is rejected and changes nothing).
C12_PoolsNonNegative ==
  \A i \in DOMAIN markets :
    markets[i].outcomes.YES >= 0 /\ markets[i].outcomes.NO >= 0

\* C13: no participant's credit balance is negative in any reachable state
\* (a buy whose cost exceeds the credits is rejected and changes nothing).
C13_CreditsNonNegative ==
  \A u \in DOMAIN shareManager.userBalances :
    ~less(shareManager.userBalances[u].credits, Fin(0))

\* The credits a participant has, the default once the account is opened.
creditsOf(sm, userId) ==
  initializeUser(sm, userId, DefaultCredits).userBalances[userId].credits

\* The last step was a buy that went through.
Bought == txn'.op = "buyShares" /\ ~txn'.threw

BoughtYes == Bought /\ txn'.outcome = "YES" /\ txn'.amount > 0

C18_ProbabilitiesSumTo100 ==
  \A i \in DOMAIN markets :
    LET p == getProbabilities(markets[i])
        pool == markets[i].outcomes
        total == pool.YES + pool.NO
        absTotal == IF total < 0 THEN 0 - total ELSE total
        err == 100 * pool.NO - p.YES.v * total
    IN /\ p.YES.k = "fin"
       /\ 2 * err <= absTotal /\ 2 * (0 - err) <= absTotal
       /\ p.NO = sub(Fin(100), p.YES)
       /\ add(p.YES, p.NO) = Fin(100)
       /\ (pool.YES = 1000 /\ pool.NO = 1000) => p = [YES |-> Fin(50), NO |-> Fin(50)]

\* The last step was a buy or a sell on a market that was RESOLVED.
TradedOnResolved ==
  /\ txn'.op \in {"buyShares", "sellShares"}
  /\ markets[txn'.marketID].status = "RESOLVED"

heldBy(sm, userId, i) ==
  IF userId \in DOMAIN sm.userBalances /\ i \in DOMAIN sm.userBalances[userId].holdings
    THEN sm.userBalances[userId].holdings[i] ELSE NoShares

\* The step settles the position of participant u on market i, resolved as w.
Settles(u, i, w) ==
  LET held == heldBy(shareManager, u, i)
      stats == shareManager.userStats[u]
  IN /\ shareManager'.userStats[u].totalPredictions
          = stats.totalPredictions + (IF held.YES > 0 \/ held.NO > 0 THEN 1 ELSE 0)
     /\ shareManager'.userStats[u].correctPredictions
          = stats.correctPredictions + (IF held[w] > 0 THEN 1 ELSE 0)
     /\ i \notin DOMAIN shareManager'.userBalances[u].holdings
     /\ shareManager'.userBalances[u].credits = shareManager.userBalances[u].credits

\* C19: resolvePosition(participant, market) on a resolved market adds 1 to the
\* participant's totalPredictions iff they held shares on either side, adds 1
\* to correctPredictions iff they held more than zero shares of the winning
\* outcome, and removes their holdings entry for the market; the resolve
\* request does so for every participant.
C19_SettlementCountsPredictions ==
  [][/\ (txn'.op = "resolvePosition"
           /\ txn'.userId \in DOMAIN shareManager.userBalances)
        => Settles(txn'.userId, txn'.marketID,
                   markets[txn'.marketID].winningOutcome)
     /\ (txn'.op = "POST resolve" /\ ~txn'.threw)
        => \A u \in DOMAIN shareManager.userBalances :
             Settles(u, txn'.marketID, txn'.outcome)]_vars

\* alice held YES = 200 and bob NO = 300 on a market resolved YES, and both
\* positions have been settled by resolvePosition.
C19_Witness ==
  /\ txn.op = "resolvePosition"
  /\ \E i \in DOMAIN markets :
       /\ markets[i].winningOutcome = "YES"
       /\ DOMAIN markets[i].positions = {"user_alice", "user_bob"}
       /\ markets[i].positions["user_alice"] = [YES |-> 200, NO |-> 0]
       /\ markets[i].positions["user_bob"] = [YES |-> 0, NO |-> 300]
       /\ settled = {<<"user_alice", i>>, <<"user_bob", i>>}
  /\ shareManager.userStats["user_alice"].correctPredictions = 1
  /\ shareManager.userStats["user_alice"].totalPredictions = 1
  /\ shareManager.userStats["user_bob"].correctPredictions = 0
  /\ shareManager.userStats["user_bob"].totalPredictions = 1
  /\ shareManager.userBalances["user_alice"].holdings = [i \in {} |-> NoShares]
  /\ shareManager.userBalances["user_bob"].holdings = [i \in {} |-> NoShares]

\* C20: a second resolvePosition(participant, market) call and a repeated
\* resolve request for a market change no stats, credits or holdings.
C20_SettlementIsOneTime ==
  [][/\ (txn'.op = "resolvePosition" /\ txn'.again)
        => shareManager' = shareManager
     /\ (/\ txn'.op = "POST resolve"
         /\ txn'.marketID \in DOMAIN markets
         /\ markets[txn'.marketID].status = "RESOLVED")
        => txn'.threw /\ shareManager' = shareManager /\ markets' = markets]_vars

\* resolvePosition has returned for a participant whose position, with shares,
\* had been settled before.
C20_Witness ==
  /\ txn.op = "resolvePosition" /\ txn.again
  /\ shareManager.userStats[txn.userId].totalPredictions = 1

(***************************************************************************)
(* Specification SpecMarketApi: the market requests of server.js.  A       *)
(* request body is JSON, so an amount is any number; a response other than *)
(* 2xx is recorded as threw with its message.                              *)
(***************************************************************************)
ApiAmounts == {-200, 0, 200}

Failed(message) == [threw |-> TRUE, error |-> message, cost |-> NaN]

\* POST /api/markets
PostMarket(marketID, createdBy) ==
  /\ IF marketID \in DOMAIN markets
       THEN /\ txn' = Txn("POST market", marketID, createdBy, "", 0,
                          Failed("Market ID already exists"))
            /\ UNCHANGED <<markets, shareManager>>
     ELSE /\ markets' = put(markets, marketID, PredictionMarket(marketID, createdBy))
          /\ shareManager' = initializeUser(shareManager, createdBy, DefaultCredits)
          /\ txn' = Txn("POST market", marketID, createdBy, "", 0, Returned)
  /\ UNCHANGED <<trades, settled, ledgerVars, gossipVars, networkVars>>

\* POST /api/markets/:id/buy
PostBuy(id, userId, outcome, amount) ==
  /\ IF id \notin DOMAIN markets
       THEN /\ txn' = Txn("POST buy", id, userId, outcome, amount,
                          Failed("Market not found"))
            /\ UNCHANGED <<markets, shareManager, trades>>
     ELSE IF amount = 0
       THEN /\ txn' = Txn("POST buy", id, userId, outcome, amount,
                          Failed("Missing required fields: userId, outcome, amount"))
            /\ UNCHANGED <<markets, shareManager, trades>>
     ELSE LET sm1 == initializeUser(shareManager, userId, DefaultCredits)
              r == ShareManager_buyShares(sm1, markets[id], userId, outcome, amount)
          IN /\ trades < MaxTrades \/ r.threw
             /\ markets' = [markets EXCEPT ![id] = r.market]
             /\ shareManager' = r.shareManager
             /\ txn' = Txn("POST buy", id, userId, outcome, amount, r)
             /\ trades' = IF r.threw THEN trades ELSE trades + 1
  /\ UNCHANGED <<settled, ledgerVars, gossipVars, networkVars>>

\* POST /api/markets/:id/sell
PostSell(id, userId, outcome, amount) ==
  /\ IF id \notin DOMAIN markets
       THEN /\ txn' = Txn("POST sell", id, userId, outcome, amount,
                          Failed("Market not found"))
            /\ UNCHANGED <<markets, shareManager, trades>>
     ELSE IF amount = 0
       THEN /\ txn' = Txn("POST sell", id, userId, outcome, amount,
                          Failed("Missing required fields: userId, outcome, amount"))
            /\ UNCHANGED <<markets, shareManager, trades>>
     ELSE LET r == ShareManager_sellShares(shareManager, markets[id],
                                           userId, outcome, amount)
          IN /\ trades < MaxTrades \/ r.threw
             /\ markets' = [markets EXCEPT ![id] = r.market]
             /\ shareManager' = r.shareManager
             /\ txn' = Txn("POST sell", id, userId, outcome, amount, r)
             /\ trades' = IF r.threw THEN trades ELSE trades + 1
  /\ UNCHANGED <<settled, ledgerVars, gossipVars, networkVars>>

NextMarketApi ==
  \/ \E marketID \in MarketIDs : PostMarket(marketID, "admin")
  \/ \E id \in MarketIDs, userId \in Users, outcome \in Outcomes,
        amount \in ApiAmounts : PostBuy(id, userId, outcome, amount)
  \/ \E id \in MarketIDs, userId \in Users, outcome \in Outcomes,
        amount \in ApiAmounts : PostSell(id, userId, outcome, amount)
  \/ \E id \in MarketIDs, outcome \in Outcomes \cup {"MAYBE"} :
       PostResolve(id, outcome)

SpecMarketApi == Init /\ [][NextMarketApi]_vars

\* C14: a sell of more shares of an outcome than the participant holds is
\* rejected with no state change, and after any sequence of buy and sell
\* requests every participant's YES and NO share counts on every market are
\* non-negative.
C14_HoldingsNonNegative ==
  /\ [](\A u \in DOMAIN shareManager.userBalances :
          \A i \in DOMAIN shareManager.userBalances[u].holdings :
            /\ shareManager.userBalances[u].holdings[i].YES >= 0
            /\ shareManager.userBalances[u].holdings[i].NO >= 0)
  /\ [][(/\ txn'.op = "POST sell"
         /\ txn'.marketID \in DOMAIN markets
         /\ txn'.amount > heldBy(shareManager, txn'.userId, txn'.marketID)[txn'.outcome])
        => /\ txn'.threw
           /\ markets' = markets
           /\ shareManager' = shareManager]_vars

(***************************************************************************)
(* Specification SpecContracts: the operations of ShareManager and of      *)
(* PredictionMarket, the market's own buyShares included, one participant. *)
(***************************************************************************)
\* market.buyShares(userId, outcome, amount), called on the market itself
MarketBuyShares(userId, marketID, outcome, amount) ==
  /\ marketID \in DOMAIN markets
  /\ LET r == Market_buyShares(markets[marketID], userId, outcome, amount)
     IN /\ trades < MaxTrades \/ r.threw
        /\ markets' = [markets EXCEPT ![marketID] = r.market]
        /\ txn' = Txn("market.buyShares", marketID, userId, outcome, amount, r)
        /\ trades' = IF r.threw THEN trades ELSE trades + 1
  /\ UNCHANGED <<shareManager, settled, ledgerVars, gossipVars, networkVars>>

NextContracts ==
  \/ \E marketID \in MarketIDs : NewMarket(marketID, "admin")
  \/ InitializeUser("user_alice", DefaultCredits)
  \/ \E marketID \in MarketIDs, outcome \in Outcomes, amount \in Lots :
       MarketBuyShares("user_alice", marketID, outcome, amount)
  \/ \E marketID \in MarketIDs, outcome \in Outcomes, amount \in Lots :
       BuyShares("user_alice", marketID, outcome, amount)
  \/ \E marketID \in MarketIDs, outcome \in Outcomes, amount \in Lots :
       SellShares("user_alice", marketID, outcome, amount)
  \/ \E marketID \in MarketIDs, outcome \in Outcomes : Resolve(marketID, outcome)

SpecContracts == Init /\ [][NextContracts]_vars

\* C21: a ShareManager.buyShares or sellShares call that throws leaves the
\* market (pools, totalVolume, positions) and the participant's credits,
\* holdings and stats as they were before the call; a participant without an
\* account is taken to have the account initializeUser opens.
C21_FailedTradeChangesNothing ==
  [][(txn'.op \in {"buyShares", "sellShares"} /\ txn'.threw) =>
       LET u == txn'.userId
           before == initializeUser(shareManager, u, DefaultCredits)
           after == initializeUser(shareManager', u, DefaultCredits)
       IN /\ markets' = markets
          /\ after.userBalances[u] = before.userBalances[u]
          /\ after.userStats[u] = before.userStats[u]]_vars

(***************************************************************************)
(* getLeaderboard (contracts/shares.js).  Object.keys(userStats) lists the *)
(* participants in the order their accounts were opened; keys is that      *)
(* order.  Array.prototype.sort is stable and takes a comparator result of *)
(* NaN as 0.                                                               *)
(***************************************************************************)
\* The entry of userId: its stats, accuracy (a whole percent) and credits.
leaderboardEntry(sm, userId) ==
  LET stats == sm.userStats[userId]
  IN [userId |-> userId,
      correctPredictions |-> stats.correctPredictions,
      totalPredictions |-> stats.totalPredictions,
      profit |-> stats.profit,
      totalTrades |-> stats.totalTrades,
      accuracy |-> IF stats.totalPredictions > 0
                     THEN round(stats.correctPredictions * 100, stats.totalPredictions)
                     ELSE 0,
      credits |-> IF userId \in DOMAIN sm.userBalances
                    THEN sm.userBalances[userId].credits ELSE Fin(0)]

\* The comparator: a sorts after b.
sortsAfter(a, b) ==
  IF b.accuracy # a.accuracy THEN b.accuracy - a.accuracy > 0
  ELSE less(Fin(0), sub(b.profit, a.profit))

\* e put into the sorted list s behind every entry it does not sort before.
RECURSIVE insertSorted(_, _)
insertSorted(s, e) ==
  IF s = <<>> THEN <<e>>
  ELSE IF sortsAfter(s[Len(s)], e)
    THEN Append(insertSorted(SubSeq(s, 1, Len(s) - 1), e), s[Len(s)])
  ELSE Append(s, e)

RECURSIVE sortEntries(_)
sortEntries(s) ==
  IF s = <<>> THEN <<>>
  ELSE insertSorted(sortEntries(SubSeq(s, 1, Len(s) - 1)), s[Len(s)])

\* getLeaderboard()
getLeaderboard(sm, keys) ==
  sortEntries([i \in 1..Len(keys) |-> leaderboardEntry(sm, keys[i])])

\* The orders in which the keys of the set S can have been inserted.
keyOrders(S) ==
  {k \in [1..Cardinality(S) -> S] : \A i, j \in DOMAIN k : i # j => k[i] # k[j]}

\* a >= b
atLeast(a, b) == a.k # "nan" /\ b.k # "nan" /\ ~less(a, b)

\* C22: getLeaderboard returns every participant with recorded stats, ordered
\* by descending accuracy correctPredictions / totalPredictions (0 when
\* totalPredictions is 0) and, among participants of equal accuracy, by
\* descending profit.
C22_LeaderboardOrdered ==
  \A keys \in keyOrders(DOMAIN shareManager.userStats) :
    LET lb == getLeaderboard(shareManager, keys)
        ratioAtLeast(a, b) ==
          IF b.totalPredictions = 0 THEN TRUE
          ELSE IF a.totalPredictions = 0 THEN b.correctPredictions = 0
          ELSE a.correctPredictions * b.totalPredictions
                 >= b.correctPredictions * a.totalPredictions
    IN /\ Len(lb) = Cardinality(DOMAIN shareManager.userStats)
       /\ {lb[i].userId : i \in DOMAIN lb} = DOMAIN shareManager.userStats
       /\ \A i, j \in DOMAIN lb :
            i < j =>
              /\ ratioAtLeast(lb[i], lb[j])
              /\ (ratioAtLeast(lb[j], lb[i])) => atLeast(lb[i].profit, lb[j].profit)

\* C23: correctPredictions, totalPredictions and totalTrades of a participant
\* never decrease (and the stats entry is never removed), and
\* correctPredictions <= totalPredictions in every reachable state.
C23_CountersMonotone ==
  /\ [](\A u \in DOMAIN shareManager.userStats :
          shareManager.userStats[u].correctPredictions
            <= shareManager.userStats[u].totalPredictions)
  /\ [][\A u \in DOMAIN shareManager.userStats :
          /\ u \in DOMAIN shareManager'.userStats
          /\ shareManager'.userStats[u].correctPredictions
               >= shareManager.userStats[u].correctPredictions
          /\ shareManager'.userStats[u].totalPredictions
               >= shareManager.userStats[u].totalPredictions
          /\ shareManager'.userStats[u].totalTrades
               >= shareManager.userStats[u].totalTrades]_vars

\* One participant has traded twice and predicted right, another has traded
\* and predicted wrong, and a later call has found both accounts in place.
C23_Witness ==
  /\ \E u, v \in DOMAIN shareManager.userStats :
       /\ shareManager.userStats[u].totalTrades >= 1
       /\ shareManager.userStats[u].correctPredictions = 1
       /\ shareManager.userStats[u].totalPredictions = 1
       /\ shareManager.userStats[v].totalTrades >= 1
       /\ shareManager.userStats[v].correctPredictions = 0
       /\ shareManager.userStats[v].totalPredictions = 1
  /\ txn.op \in {"buyShares", "initializeUser"}

(***************************************************************************)
(* Specification SpecSync: a node that appends locally and syncs from a    *)
(* peer, by P2PServer.syncWithPeer (contracts/p2p.js, GET /sync) or by     *)
(* Blockchain.syncWithPeer (contracts/ledger.js, GET /ledger).  The await  *)
(* of the peer's answer is the only await of either method: what follows   *)
(* the answer runs without yielding, on the store as it is then.           *)
(*   req.arg  the answer of the peer to the last sync;  ret  what the sync *)
(*   returned                                                              *)
(***************************************************************************)
\* What a peer can answer: nothing (unreachable, error status), a body
\* without the chain field, or a body with a chain.
Unreachable == [kind |-> "error", chain |-> <<>>]

NoChainField == [kind |-> "nochain", chain |-> <<>>]

Answers(s) ==
  {Unreachable, NoChainField}
    \cup {[kind |-> "chain", chain |-> c] : c \in CandidateChains(s)}

\* P2PServer.syncWithPeer(peerUrl), given the answer to GET /sync
P2PServer_syncWithPeer(s, response) ==
  IF response.kind = "error" THEN [ret |-> FALSE, store |-> s]
  ELSE IF response.kind = "nochain" THEN [ret |-> FALSE, store |-> s]
  ELSE LET chainReplaced == replaceChain(s, response.chain)
       IN IF chainReplaced.ret THEN [ret |-> TRUE, store |-> chainReplaced.store]
          ELSE [ret |-> TRUE, store |-> chainReplaced.store]

\* Blockchain.syncWithPeer(peerUrl), given the answer to GET /ledger;
\* validateChain(undefined) throws into the catch block.
Blockchain_syncWithPeer(s, response) ==
  IF response.kind = "error" THEN [ret |-> FALSE, store |-> s]
  ELSE IF response.kind = "nochain" THEN [ret |-> FALSE, store |-> s]
  ELSE IF /\ validateChain(response.chain)
          /\ Len(response.chain) >= Len(getFullChain(s))
    THEN [ret |-> TRUE, store |-> writeAll(clearLedger(s), response.chain, 1)]
  ELSE [ret |-> FALSE, store |-> s]

Synced(response) == [op |-> "none", arg |-> response, left |-> 0, done |-> 1]

P2PServerSyncWithPeer(response) ==
  /\ store' = P2PServer_syncWithPeer(store, response).store
  /\ ret' = P2PServer_syncWithPeer(store, response).ret
  /\ lastOp' = "P2PServer.syncWithPeer"
  /\ req' = Synced(response)
  /\ UNCHANGED <<clock, chain, edits, valid, report, marketVars, gossipVars, networkVars>>

BlockchainSyncWithPeer(response) ==
  /\ store' = Blockchain_syncWithPeer(store, response).store
  /\ ret' = Blockchain_syncWithPeer(store, response).ret
  /\ lastOp' = "Blockchain.syncWithPeer"
  /\ req' = Synced(response)
  /\ UNCHANGED <<clock, chain, edits, valid, report, marketVars, gossipVars, networkVars>>

NextSync ==
  \/ \E data \in SamplePayloads : AddBlock(data)
  \/ \E response \in Answers(store) : P2PServerSyncWithPeer(response)
  \/ \E response \in Answers(store) : BlockchainSyncWithPeer(response)

SpecSync == Init /\ [][NextSync]_vars

SyncOps == {"P2PServer.syncWithPeer", "Blockchain.syncWithPeer"}

\* C29: a sync from a peer (P2PServer.syncWithPeer, Blockchain.syncWithPeer)
\* changes the local store only when the peer's chain is valid and strictly
\* longer than the local chain; otherwise the store is left untouched.
C29_SyncOnlyLongerValid ==
  [][(lastOp' \in SyncOps /\ store' # store) =>
       /\ req'.arg.kind = "chain"
       /\ IsValidChain(req'.arg.chain)
       /\ Len(req'.arg.chain) > Cardinality(DOMAIN store)]_vars

\* C30: syncWithPeer returns true only when the local store has been
\* overwritten with the peer's chain, and when it returns false (peer
\* unreachable, chain not usable) the local store is unchanged.
C30_SyncReturnsOverwritten ==
  [][lastOp' \in SyncOps =>
       /\ ret' => /\ req'.arg.kind = "chain"
                  /\ store' = writeAll(EmptyStore, req'.arg.chain, 1)
       /\ ~ret' => store' = store]_vars

(***************************************************************************)
(* Specification SpecGossip: one node whose peers register with it and     *)
(* whose append requests (/add-kit, /update-location) interleave at their  *)
(* awaits; the peers answer the pushes of broadcastBlock, fail them, or    *)
(* never answer.  The clock does not tick in this specification.           *)
(***************************************************************************)
Urls == {"http://node-b:3001", "http://node-c:3002"}

Range(list) == {list[k] : k \in DOMAIN list}

\* (mutant) registerPeer without the test for a peer that is already listed.
registerPeer_NoCheck(list, nodeUrl) == Append(list, nodeUrl)

\* Blockchain.registerPeer(nodeUrl), on the list this.peers
registerPeer(list, nodeUrl) ==
  IF nodeUrl \notin Range(list) THEN Append(list, nodeUrl) ELSE list

\* The registration request served last.
Registered(nodeUrl) == [op |-> "none", arg |-> nodeUrl, left |-> 0, done |-> 1]

\* POST /register-node: 200
RegisterNode(nodeUrl) ==
  /\ peers' = [peers EXCEPT !.blockchain = registerPeer(@, nodeUrl)]
  /\ lastOp' = "POST /register-node"
  /\ req' = Registered(nodeUrl)
  /\ ret' = TRUE
  /\ UNCHANGED <<requests, pushes, store, clock, chain, edits, valid, report,
                 marketVars, networkVars>>

\* POST /nodes/register, on the gateway's own list: 200, or 400 for an
\* address that is listed already.
NodesRegister(nodeUrl) ==
  /\ peers' = [peers EXCEPT !.gateway = IF nodeUrl \notin Range(@)
                                          THEN Append(@, nodeUrl) ELSE @]
  /\ lastOp' = "POST /nodes/register"
  /\ req' = Registered(nodeUrl)
  /\ ret' = (nodeUrl \notin Range(peers.gateway))
  /\ UNCHANGED <<requests, pushes, store, clock, chain, edits, valid, report,
                 marketVars, networkVars>>

\* The posts of block that request r makes to the peers of list, one for
\* each entry, all of them made before any of them is answered.
posts(list, path, r, block) ==
  {[id |-> r, peer |-> list[k], k |-> k, path |-> path,
    index |-> block.index, state |-> "sent"] : k \in DOMAIN list}

\* broadcastBlock(block): the posts of one call
broadcastBlock(list, r, block) == posts(list, "/receive-block", r, block)

\* The pushes of request r that broadcastBlock is awaiting, or has awaited.
broadcastOf(r) == {p \in pushes : p.id = r /\ p.path = "/receive-block"}

\* (mutant) broadcastBlock without the try/catch around each post.
broadcastRejects_Uncaught(results) == \E p \in results : p.state = "error"

\* Whether Promise.all(promises) of broadcastBlock rejects: each promise
\* catches the failure of its own post.
broadcastRejects(results) == FALSE

\* The payload of the /add-kit requests.
GossipKit ==
  [MedicalKit("KIT-1", "Emergency", "Geneva", 4, "A", clock, HqKey)
     EXCEPT !.intelligence = intelligenceFor("KIT-1")]

\* The synchronous part of addBlock(data) in request r: the block is written,
\* then broadcastBlock posts it if there are peers.  Without peers addBlock
\* awaits nothing: its promise is already resolved, and the handler runs on
\* to its response before any other request is served.
AddBlockIn(r, path, data) ==
  LET block == newBlock(store, data, clock, clock)
      written == writeBlock(store, block)
      latest == getLatestBlock(written)
  IN /\ nextIndex(store) < MaxBlocks
     /\ store' = written
     /\ IF Len(peers.blockchain) > 0
          THEN /\ pushes' = pushes \cup broadcastBlock(peers.blockchain, r, block)
               /\ requests' = [requests EXCEPT ![r].pc = "broadcast",
                                               ![r].path = path,
                                               ![r].block = block]
          ELSE /\ pushes' = pushes \cup posts(peers.gateway, "/blocks/receive", r, latest)
               /\ requests' = [requests EXCEPT
                                 ![r].pc = "done",
                                 ![r].path = path,
                                 ![r].block = block,
                                 ![r].status = IF path = "/add-kit" THEN 201 ELSE 200,
                                 ![r].sent = latest]

\* The next request to arrive takes the next request number.
Arrives(r) == requests[r].pc = "idle" /\ (r > 1 => requests[r - 1].pc # "idle")

\* POST /add-kit up to `await intelligenceService.getIntelligenceForShipment`
AddKitArrives(r) ==
  /\ Arrives(r)
  /\ requests' = [requests EXCEPT ![r].pc = "intelligence", ![r].path = "/add-kit"]
  /\ UNCHANGED <<peers, pushes, ledgerVars, marketVars, networkVars>>

\* POST /add-kit from the answer of the intelligence service up to
\* `await this.broadcastBlock(newBlock)`
AddKitAppends(r) ==
  /\ requests[r].pc = "intelligence"
  /\ AddBlockIn(r, "/add-kit", GossipKit)
  /\ UNCHANGED <<peers, clock, req, lastOp, ret, chain, edits, valid, report,
                 marketVars, networkVars>>

\* POST /update-location up to `await this.broadcastBlock(newBlock)`: the
\* handler does not await before it calls addBlock.
UpdateLocationAppends(r, newLocation) ==
  /\ Arrives(r)
  /\ kitBlocks(store, "KIT-1") # {}
  /\ LET existing == store[MaxOf(kitBlocks(store, "KIT-1"))].data
         updatedKitData ==
           [existing EXCEPT !.location = newLocation,
                            !.update = <<"user@icrc.org", "transporter", clock, "">>]
     IN AddBlockIn(r, "/update-location", updatedKitData)
  /\ UNCHANGED <<peers, clock, req, lastOp, ret, chain, edits, valid, report,
                 marketVars, networkVars>>

\* A peer answers a post of broadcastBlock, or the post fails.
PeerAnswers(p, state) ==
  /\ p \in pushes
  /\ p.path = "/receive-block"
  /\ p.state = "sent"
  /\ pushes' = (pushes \ {p}) \cup {[p EXCEPT !.state = state]}
  /\ UNCHANGED <<peers, requests, ledgerVars, marketVars, networkVars>>

\* Promise.all(promises) of broadcastBlock settles when every post of the
\* call has been answered or has failed; addBlock returns, or throws into
\* the catch block of the handler (500).
BroadcastSettles(r) ==
  /\ requests[r].pc = "broadcast"
  /\ \A p \in broadcastOf(r) : p.state # "sent"
  /\ requests' = IF broadcastRejects(broadcastOf(r))
                   THEN [requests EXCEPT ![r].pc = "done", ![r].status = 500]
                   ELSE [requests EXCEPT ![r].pc = "appended"]
  /\ UNCHANGED <<peers, pushes, ledgerVars, marketVars, networkVars>>

\* The handler after `await blockchain.addBlock(...)`: it reads the latest
\* block, posts it to every peer of the gateway's list without awaiting the
\* answers, and responds.
Responds(r) ==
  /\ requests[r].pc = "appended"
  /\ LET latest == getLatestBlock(store)
     IN /\ pushes' = pushes \cup posts(peers.gateway, "/blocks/receive", r, latest)
        /\ requests' = [requests EXCEPT
                          ![r].pc = "done",
                          ![r].status = IF requests[r].path = "/add-kit"
                                          THEN 201 ELSE 200,
                          ![r].sent = latest]
  /\ UNCHANGED <<peers, ledgerVars, marketVars, networkVars>>

NextGossip ==
  \/ \E nodeUrl \in Urls : RegisterNode(nodeUrl)
  \/ \E nodeUrl \in Urls : NodesRegister(nodeUrl)
  \/ \E r \in 1..MaxRequests : AddKitArrives(r)
  \/ \E r \in 1..MaxRequests : AddKitAppends(r)
  \/ \E r \in 1..MaxRequests : UpdateLocationAppends(r, "B")
  \/ \E p \in pushes, state \in {"ok", "error"} : PeerAnswers(p, state)
  \/ \E r \in 1..MaxRequests : BroadcastSettles(r)
  \/ \E r \in 1..MaxRequests : Responds(r)

SpecGossip == Init /\ [][NextGossip]_vars

NoDuplicates(list) == \A i, j \in DOMAIN list : list[i] = list[j] => i = j

IsPrefix(s, t) == Len(s) <= Len(t) /\ \A k \in DOMAIN s : s[k] = t[k]

\* C24: registerPeer is an idempotent set-insert: registering an address that
\* is already listed changes nothing, and a peer list of the node (that of the
\* ledger and that of POST /nodes/register) never holds an address twice and
\* never loses an address.
C24_RegisterPeerIdempotent ==
  /\ [](/\ NoDuplicates(peers.blockchain)
        /\ NoDuplicates(peers.gateway)
        /\ \A nodeUrl \in Range(peers.blockchain) :
             /\ registerPeer(peers.blockchain, nodeUrl) = peers.blockchain
             /\ \A other \in Urls :
                  registerPeer(registerPeer(peers.blockchain, other), other)
                    = registerPeer(peers.blockchain, other))
  /\ [][/\ IsPrefix(peers.blockchain, peers'.blockchain)
        /\ IsPrefix(peers.gateway, peers'.gateway)
        /\ (lastOp' = "POST /register-node" /\ req'.arg \in Range(peers.blockchain))
             => peers' = peers
        /\ (lastOp' = "POST /nodes/register" /\ req'.arg \in Range(peers.gateway))
             => peers' = peers]_vars

\* With both addresses in both lists, the address registered first has been
\* registered again with the ledger.
C24_Witness ==
  /\ Range(peers.gateway) = Urls
  /\ Len(peers.blockchain) = 2
  /\ lastOp = "POST /register-node"
  /\ req.arg = peers.blockchain[1]

\* Request r has written its block.
Wrote(r) == requests[r].block # NoBlock

\* C25: broadcastBlock posts the block to every registered peer, whatever
\* becomes of the other posts (a post, failed or not, is never withdrawn), and
\* a failed post is not propagated to the caller of addBlock: addBlock returns
\* normally once every post has settled, no request is answered with an error,
\* and the block stays stored.
C25_PeerFailureIsolated ==
  /\ [](\A r \in 1..MaxRequests :
          /\ requests[r].status # 500
          /\ Wrote(r) => /\ requests[r].block.index \in DOMAIN store
                         /\ store[requests[r].block.index] = requests[r].block)
  /\ [][\A r \in 1..MaxRequests :
          /\ (~Wrote(r) /\ requests'[r].block # NoBlock) =>
               \A k \in DOMAIN peers.blockchain :
                 [id |-> r, peer |-> peers.blockchain[k], k |-> k,
                  path |-> "/receive-block",
                  index |-> requests'[r].block.index, state |-> "sent"] \in pushes'
          /\ \A p \in broadcastOf(r) :
               \E q \in pushes' : q.id = r /\ q.k = p.k /\ q.peer = p.peer
                                   /\ q.path = p.path /\ q.index = p.index
          /\ (requests[r].pc = "broadcast" /\ requests'[r].pc # "broadcast") =>
               requests'[r].pc = "appended"]_vars

\* An /add-kit request was answered 201 after one of the two posts of its
\* broadcast had failed and the other had been answered.
C25_Witness ==
  \E r \in 1..MaxRequests :
    /\ requests[r].pc = "done"
    /\ requests[r].status = 201
    /\ requests[r].block.index \in DOMAIN store
    /\ \E p, q \in broadcastOf(r) : p.state = "error" /\ q.state = "ok"

(***************************************************************************)
(* Specification FairSpecGossip: SpecGossip in which the node itself keeps *)
(* running: a continuation that is ready (the answer of the intelligence   *)
(* service has arrived, every post of a broadcast has settled, addBlock    *)
(* has returned) is eventually run by the event loop.  Nothing obliges a   *)
(* peer to answer a post, and axios.post is called without a timeout, so   *)
(* there is no step that abandons an unanswered post.                      *)
(***************************************************************************)
FairSpecGossip ==
  /\ SpecGossip
  /\ \A r \in 1..MaxRequests :
       /\ WF_vars(AddKitAppends(r))
       /\ WF_vars(BroadcastSettles(r))
       /\ WF_vars(Responds(r))

\* A post is made only for a block that is already written.
WrittenBeforePushed ==
  \A p \in pushes :
    /\ Wrote(p.id)
    /\ p.path = "/receive-block" =>
         /\ p.index = requests[p.id].block.index
         /\ p.index \in DOMAIN store

\* C26: the local block is written before any peer is contacted, and an
\* append request whose block is written is eventually answered (addBlock
\* returns) even if a registered peer never answers.
C26_AppendEventuallyCompletes ==
  /\ []WrittenBeforePushed
  /\ \A r \in 1..MaxRequests : Wrote(r) ~> (requests[r].pc = "done")

\* C27: for each append, the appended block is posted to each peer address at
\* most once, counting the posts of broadcastBlock inside addBlock and those of
\* the gossip loop of the request handler.
C27_PushedAtMostOnce ==
  \A r \in 1..MaxRequests :
    Wrote(r) =>
      \A nodeUrl \in Urls :
        Cardinality({p \in pushes : /\ p.id = r
                                    /\ p.peer = nodeUrl
                                    /\ p.index = requests[r].block.index}) <= 1

\* C28: when several append requests are in flight on one node, no two of them
\* compute the same next index: every request that has appended has its own
\* block in the store, at an index no other request has written, and an append
\* writes at an index that held no block, leaving every stored block as it was.
C28_ConcurrentAppendsDistinct ==
  /\ [](\A r1, r2 \in 1..MaxRequests :
          (Wrote(r1) /\ Wrote(r2)) =>
            /\ r1 # r2 => requests[r1].block.index # requests[r2].block.index
            /\ requests[r1].block.index \in DOMAIN store
            /\ store[requests[r1].block.index] = requests[r1].block)
  /\ [][\A r \in 1..MaxRequests :
          (~Wrote(r) /\ requests'[r].block # NoBlock) =>
            /\ requests'[r].block.index \notin DOMAIN store
            /\ DOMAIN store' = DOMAIN store \cup {requests'[r].block.index}
            /\ \A i \in DOMAIN store : store'[i] = store[i]]_vars

\* Two /add-kit requests are awaiting their broadcasts at once, and the one
\* that arrived second has appended first.
C28_Witness ==
  /\ requests[1].pc = "broadcast"
  /\ requests[2].pc = "broadcast"
  /\ requests[1].path = "/add-kit"
  /\ requests[2].path = "/add-kit"
  /\ requests[2].block.index = 0
  /\ requests[1].block.index = 1
  /\ store[0] = requests[2].block
  /\ store[1] = requests[1].block

\* C39: a participant who buys n > 0 shares of an outcome and sells the same n
\* shares on the same market in the next call has credits no greater than
\* before the buy.
C39_RoundTripNoGain ==
  [][(/\ txn.op = "buyShares" /\ ~txn.threw /\ txn.amount > 0
      /\ txn'.op = "sellShares" /\ ~txn'.threw
      /\ txn'.userId = txn.userId /\ txn'.marketID = txn.marketID
      /\ txn'.outcome = txn.outcome /\ txn'.amount = txn.amount)
     => ~less(add(creditsOf(shareManager, txn.userId), txn.cost),
              creditsOf(shareManager', txn.userId))]_vars

(***************************************************************************)
(* Specification SpecMarketRequests: one participant sends buy, sell and   *)
(* resolve requests with amounts below and above the pool's liquidity.     *)
(***************************************************************************)
RequestAmounts == {200, 900, 1100}

NextMarketRequests ==
  \/ \E marketID \in MarketIDs : PostMarket(marketID, "admin")
  \/ \E id \in MarketIDs, outcome \in Outcomes, amount \in RequestAmounts :
       PostBuy(id, "user_alice", outcome, amount)
  \/ \E id \in MarketIDs, outcome \in Outcomes, amount \in RequestAmounts :
       PostSell(id, "user_alice", outcome, amount)
  \/ \E id \in MarketIDs, outcome \in Outcomes : PostResolve(id, outcome)

SpecMarketRequests == Init /\ [][NextMarketRequests]_vars

\* C40: in every market state reachable by buy, sell and resolve requests
\* getProbabilities() returns YES and NO values that are integers within
\* 0..100.
C40_ProbabilitiesWithinRange ==
  \A i \in DOMAIN markets :
    LET p == getProbabilities(markets[i])
    IN /\ p.YES.k = "fin" /\ p.YES.v \in 0..100
       /\ p.NO.k = "fin" /\ p.NO.v \in 0..100

(***************************************************************************)
(* Specification SpecHistory: kits are added and relocated and their       *)
(* histories are queried (GET /ledger/:kitId).                             *)
(*   report  the history returned by the last query;  ret  whether it was  *)
(*   answered 200 (404 when the kit has no record);  req.arg  the kit      *)
(***************************************************************************)
\* (mutant) the history without the test of the payload's kitID.
kitHistory_All(c, requestedKitId) == c

\* The blocks of c whose payload carries the requested kitID, in the order of c.
RECURSIVE kitHistory(_, _)
kitHistory(c, requestedKitId) ==
  IF c = <<>> THEN <<>>
  ELSE LET rest == kitHistory(SubSeq(c, 1, Len(c) - 1), requestedKitId)
           block == c[Len(c)]
       IN IF block.data.kitID = requestedKitId THEN Append(rest, block) ELSE rest

\* GET /ledger/:kitId
GetHistory(requestedKitId) ==
  /\ report' = kitHistory(getFullChain(store), requestedKitId)
  /\ ret' = (Len(report') # 0)
  /\ lastOp' = "GET /ledger/:kitId"
  /\ req' = [op |-> "none", arg |-> requestedKitId, left |-> 0, done |-> 1]
  /\ UNCHANGED <<store, clock, chain, edits, valid, marketVars, gossipVars, networkVars>>

NextHistory ==
  \/ \E kitID \in KitIDs, location \in {"A", "B"} : AddKit("admin", kitID, 4, location)
  \/ \E kitID \in KitIDs, newLocation \in {"A", "B"} :
       UpdateLocation("transporter", kitID, newLocation, FALSE, 4, "")
  \/ \E requestedKitId \in KitIDs : GetHistory(requestedKitId)

SpecHistory == Init /\ [][NextHistory]_vars

\* C36: the history query for a subject returns exactly the stored blocks whose
\* payload kitID is the requested id, each once, in ascending index order; for a
\* kit with two records, with location A then B, it returns 2 blocks of which
\* the second has location B.
C36_HistoryOfKit ==
  [][lastOp' = "GET /ledger/:kitId" =>
       LET id == req'.arg
           history == report'
           mine == kitBlocks(store', id)
       IN /\ Len(history) = Cardinality(mine)
          /\ \A k \in DOMAIN history :
               /\ history[k].index \in mine
               /\ history[k] = store'[history[k].index]
               /\ k > 1 => history[k - 1].index < history[k].index
          /\ ret' <=> mine # {}
          /\ (\E i, j \in mine : /\ mine = {i, j} /\ i < j
                                 /\ store'[i].data.location = "A"
                                 /\ store'[j].data.location = "B")
               => Len(history) = 2 /\ history[2].data.location = "B"]_vars

\* The history of a kit added at A and relocated to B has been returned.
C36_Witness ==
  /\ lastOp = "GET /ledger/:kitId"
  /\ ret
  /\ Len(report) = 2
  /\ report[1].data.location = "A"
  /\ report[1].data.update = <<>>
  /\ report[2].data.location = "B"
  /\ report[2].data.update # <<>>
  /\ report[1].data.kitID = req.arg

(***************************************************************************)
(* Specification SpecReceive: a node that is sent blocks at                *)
(* POST /receive-block (body {block}) and POST /blocks/receive (body the   *)
(* block).  Every request passes authGuard first.  Both handlers are       *)
(* synchronous.                                                            *)
(*   req.arg  the last request (endpoint, token, block) with the status of *)
(*   its response;  ret  whether it was answered 200                       *)
(***************************************************************************)
\* The token cookie of a request: none, one that does not verify, or a
\* verified one of a user with a role.
Tokens == {"none", "forged"} \cup Roles

PublicPaths == {"/login", "/register", "/api/login", "/api/register", "/favicon.ico"}

ApiPaths ==
  {"/health", "/ledger", "/audit", "/tamper-check", "/register-node", "/sync",
   "/receive-block", "/nodes/register", "/blocks/receive", "/profile", "/users",
   "/intelligence", "/admin", "/logout"}

\* authGuard for the paths of the model, none of which is a static asset or
\* an admin path: 0 when next() is called, else the status of the response.
authGuard(path, token) ==
  IF path \in PublicPaths THEN 0
  ELSE IF path \in ApiPaths
    THEN IF token = "none" THEN 401 ELSE IF token \notin Roles THEN 403 ELSE 0
  ELSE IF token \notin Roles THEN 302 ELSE 0

\* The request axios.post(url, body) makes: no cookie is attached.
pushRequest(path, block) == [path |-> path, token |-> "none", block |-> block]

\* A payload without location, temperature and kitID.
Memo == [memo |-> "stock count"]

\* updateBlockStatus(block)
updateBlockStatus(block) ==
  IF ~hashOk(block)
    THEN put(put(block, "status", "tampered"), "tamperReason", "Invalid block hash")
  ELSE IF \/ "location" \in DOMAIN block.data
          \/ "temperature" \in DOMAIN block.data
          \/ "kitID" \in DOMAIN block.data
    THEN put(block, "status", "verified")
  ELSE put(put(block, "status", "unverified"),
           "tamperReason", "Missing critical data fields")

\* The handler of POST /receive-block
receiveBlock(s, block) ==
  IF ~hashOk(block) THEN [status |-> 400, store |-> s]
  ELSE IF block.index \in DOMAIN s /\ s[block.index].hash = block.hash
    THEN [status |-> 200, store |-> s]
  ELSE [status |-> 200, store |-> writeBlock(s, block)]

\* (mutant) the handler of POST /blocks/receive answering 200 whatever
\* saveReceivedBlock returned.
blocksReceive_AlwaysOk(s, block) ==
  LET updatedBlock == updateBlockStatus(block)
      success == saveReceivedBlock(s, updatedBlock)
  IN [status |-> 200, store |-> success.store]

\* The handler of POST /blocks/receive
blocksReceive(s, block) ==
  LET updatedBlock == updateBlockStatus(block)
      success == saveReceivedBlock(s, updatedBlock)
  IN [status |-> IF success.ret THEN 200 ELSE 400, store |-> success.store]

\* The payload of a kit.
SentKit == MedicalKit("KIT-1", "Emergency", "Geneva", 4, "A", 0, HqKey)

\* The blocks sent to the node: any index, the payload of a kit or one that
\* is not a kit, linked to the stored block before that index or to nothing,
\* with a digest that is right or (the sentinel) wrong.
SentBlocks(s) ==
  UNION { { Block(i, 0, d, p, IF good THEN calculateHash(i, 0, d, p) ELSE ZeroHash) :
              d \in {SentKit, Memo},
              p \in {ZeroHash} \cup {s[j].hash : j \in DOMAIN s \cap {i - 1}},
              good \in BOOLEAN } : i \in 0..(MaxBlocks - 1) }

Received(request, status) ==
  [op |-> "none", arg |-> request, left |-> 0, done |-> status]

\* POST /receive-block
PostReceiveBlock(request) ==
  /\ request.path = "/receive-block"
  /\ LET guard == authGuard(request.path, request.token)
         r == IF guard # 0 THEN [status |-> guard, store |-> store]
              ELSE receiveBlock(store, request.block)
     IN /\ store' = r.store
        /\ ret' = (r.status = 200)
        /\ req' = Received(request, r.status)
  /\ lastOp' = "POST /receive-block"
  /\ UNCHANGED <<clock, chain, edits, valid, report, marketVars, gossipVars, networkVars>>

\* POST /blocks/receive
PostBlocksReceive(request) ==
  /\ request.path = "/blocks/receive"
  /\ LET guard == authGuard(request.path, request.token)
         r == IF guard # 0 THEN [status |-> guard, store |-> store]
              ELSE blocksReceive(store, request.block)
     IN /\ store' = r.store
        /\ ret' = (r.status = 200)
        /\ req' = Received(request, r.status)
  /\ lastOp' = "POST /blocks/receive"
  /\ UNCHANGED <<clock, chain, edits, valid, report, marketVars, gossipVars, networkVars>>

\* The cookies of the requests made: authGuard treats every role alike on the
\* receive endpoints, so one role stands for them all.
ReceiveTokens == Tokens \ (Roles \ {"viewer"})

Requests(path, s) ==
  {[path |-> path, token |-> token, block |-> block] :
     token \in ReceiveTokens, block \in SentBlocks(s)}

NextReceive ==
  \/ \E request \in Requests("/receive-block", store) : PostReceiveBlock(request)
  \/ \E request \in Requests("/blocks/receive", store) : PostBlocksReceive(request)

SpecReceive == Init /\ [][NextReceive]_vars

\* The tag receive gives a block.
tagOf(block) ==
  IF ~hashOk(block) THEN "tampered"
  ELSE IF DOMAIN block.data \cap {"location", "temperature", "kitID"} # {}
    THEN "verified"
  ELSE "unverified"

\* The request reached the handler.
Handled == req'.done \notin {401, 403, 302}

\* C33: when node A appends a block while node B is a registered, reachable
\* peer whose store equals A's store before the append, the block A pushes (to
\* either receive endpoint of B) is accepted by B and written into B's store
\* with its index, timestamp, data, previousHash and hash unchanged.
C33_PushedBlockAccepted ==
  [][\A path \in {"/receive-block", "/blocks/receive"}, data \in {SentKit, Memo} :
       (/\ lastOp' = "POST " \o path
        /\ req'.arg = pushRequest(path, newBlock(store, data, 0, 0)))
       => /\ ret'
          /\ req'.arg.block.index \in DOMAIN store'
          /\ \A f \in {"index", "timestamp", "data", "previousHash", "hash"} :
               store'[req'.arg.block.index][f] = req'.arg.block[f]]_vars

\* C35: POST /blocks/receive tags a pushed block tampered when its hash does
\* not match its fields, else verified when its payload has a location,
\* temperature or kitID, else unverified; the request is accepted exactly when
\* saveReceivedBlock accepts the tagged block, which it then has stored with
\* its tag; a tampered block is never written.
C35_ReceiveTagsAndDelegates ==
  /\ [](\A i \in DOMAIN store :
          "status" \in DOMAIN store[i] => store[i].status # "tampered")
  /\ [][(lastOp' = "POST /blocks/receive" /\ Handled) =>
          LET block == req'.arg.block
              tagged == [f \in DOMAIN block \cup {"status"} |->
                           IF f = "status" THEN tagOf(block) ELSE block[f]]
              saved == saveReceivedBlock(store, updateBlockStatus(block))
          IN /\ ret' = saved.ret
             /\ store' = saved.store
             /\ tagOf(block) = "tampered" => ~ret' /\ store' = store
             /\ store' # store =>
                  /\ ret'
                  /\ \A f \in DOMAIN tagged : store'[block.index][f] = tagged[f]]_vars

\* A verified kit block and, after it, an unverified block without kit fields
\* have been accepted and stored with their tags.
C35_Witness ==
  /\ lastOp = "POST /blocks/receive"
  /\ ret
  /\ DOMAIN store = {0, 1}
  /\ "status" \in DOMAIN store[0] /\ store[0].status = "verified"
  /\ "status" \in DOMAIN store[1] /\ store[1].status = "unverified"
  /\ req.arg.block.index = 1

\* C37: POST /receive-block never overwrites history: a pushed block whose
\* index holds a block with a different hash, or whose index is below the
\* latest local index, is rejected and the store is unchanged.
C37_ReceiveBlockKeepsHistory ==
  [][(/\ lastOp' = "POST /receive-block"
      /\ LET block == req'.arg.block
         IN \/ block.index \in DOMAIN store /\ store[block.index].hash # block.hash
            \/ HasBlocks(store) /\ block.index < getLatestBlock(store).index)
     => (~ret' /\ store' = store)]_vars

\* C38: in the /add-kit and /update-location handlers the block returned in
\* the response and gossiped to the peers is the block this request appended,
\* under every interleaving with other requests, including while addBlock is
\* awaiting its broadcast.
C38_RespondsWithOwnBlock ==
  \A r \in 1..MaxRequests :
    (requests[r].pc = "done" /\ requests[r].status \in {200, 201}) =>
      /\ requests[r].sent = requests[r].block
      /\ \A p \in pushes :
           (p.id = r /\ p.path = "/blocks/receive") =>
             p.index = requests[r].block.index

(***************************************************************************)
(* Specification SpecStartup: the node starts listening and runs           *)
(* initializeSync over the peers of KNOWN_PEERS, on a store that earlier   *)
(* runs and requests have filled.  The loop is suspended at `await         *)
(* this.syncWithPeer(peerUrl)` until GET /sync is answered or fails; a     *)
(* peer may accept the connection and never answer.                        *)
(*   startup.contacted  the peers GET /sync has been sent to, in order     *)
(*   startup.fate       whether the request in flight will be answered     *)
(***************************************************************************)
\* The values of KNOWN_PEERS, split at the commas.
KnownPeers ==
  {<<>>} \cup {<<u>> : u \in Urls} \cup {<<u, v>> : u \in Urls, v \in Urls}

Fates == {"answers", "silent"}

\* One iteration of the loop of initializeSync up to its await: the peer is
\* registered and GET /sync is sent to it.
visit(st, fate) ==
  [st EXCEPT !.pc = "await",
             !.contacted = Append(@, st.knownPeers[Len(st.contacted) + 1]),
             !.fate = fate]

visited(st, list) == registerPeer(list, st.knownPeers[Len(st.contacted) + 1])

\* The callback of app.listen up to the first await of initializeSync.
Listen(knownPeers, fate) ==
  /\ startup.pc = "off"
  /\ IF Len(knownPeers) > 0
       THEN /\ startup' = visit([startup EXCEPT !.knownPeers = knownPeers], fate)
            /\ peers' = [peers EXCEPT
                           !.blockchain = registerPeer(@, knownPeers[1])]
       ELSE /\ startup' = [startup EXCEPT !.pc = "complete"]
            /\ UNCHANGED peers
  /\ UNCHANGED <<requests, pushes, remote, ledgerVars, marketVars>>

\* GET /sync is answered or fails: syncWithPeer returns, and the loop breaks,
\* goes on to the next peer, or ends.
SyncAnswered(response, fate) ==
  /\ startup.pc = "await"
  /\ startup.fate = "answers"
  /\ LET result == P2PServer_syncWithPeer(store, response)
         syncSuccess == result.ret
     IN /\ store' = result.store
        /\ ret' = syncSuccess
        /\ IF syncSuccess \/ Len(startup.contacted) = Len(startup.knownPeers)
             THEN /\ startup' = [startup EXCEPT !.pc = "complete"]
                  /\ UNCHANGED peers
             ELSE /\ startup' = visit(startup, fate)
                  /\ peers' = [peers EXCEPT !.blockchain = visited(startup, @)]
  /\ lastOp' = "P2PServer.syncWithPeer"
  /\ req' = Synced(response)
  /\ UNCHANGED <<clock, chain, edits, valid, report, requests, pushes, remote,
                 marketVars>>

NextStartup ==
  \/ \E data \in SamplePayloads : AddBlock(data)
  \/ \E knownPeers \in KnownPeers, fate \in Fates : Listen(knownPeers, fate)
  \/ \E response \in Answers(store), fate \in Fates : SyncAnswered(response, fate)

SpecStartup == Init /\ [][NextStartup]_vars

\* The node's own steps are taken, and a peer that answers does so in the end.
FairSpecStartup ==
  /\ SpecStartup
  /\ WF_vars(\E knownPeers \in KnownPeers, fate \in Fates : Listen(knownPeers, fate))
  /\ WF_vars(\E response \in Answers(store), fate \in Fates :
               SyncAnswered(response, fate))

\* The answer that ends the wait brings a valid chain longer than the local one.
ObtainedLonger ==
  /\ req'.arg.kind = "chain"
  /\ validateChain(req'.arg.chain)
  /\ Len(req'.arg.chain) > Len(getFullChain(store))

\* C31: initializeSync visits the known peers in list order and registers each
\* peer it visits; after a peer whose sync fails it goes on to the next, and it
\* stops at the first peer from which it obtained a longer valid chain: the
\* peers after that one are neither contacted nor registered.
C31_StopsAtFirstLongerChain ==
  /\ [](/\ IsPrefix(startup.contacted, startup.knownPeers)
        /\ Range(peers.blockchain) = Range(startup.contacted))
  /\ [][(startup.pc = "await" /\ startup' # startup) =>
          IF ObtainedLonger \/ Len(startup.contacted) = Len(startup.knownPeers)
            THEN /\ startup'.pc = "complete"
                 /\ startup'.contacted = startup.contacted
            ELSE /\ startup'.pc = "await"
                 /\ Len(startup'.contacted) = Len(startup.contacted) + 1]_vars
  /\ [][startup.pc = "complete" => startup' = startup]_vars

\* C32: initializeSync always terminates: a peer that accepts the connection
\* and never answers is abandoned after a timeout and the next peer is tried.
C32_InitializeSyncTerminates == <>(startup.pc = "complete")

(***************************************************************************)
(* Specification SpecNetwork: two nodes that run the program and have      *)
(* registered each other.  store is the block store of the first node and  *)
(* remote that of the second.  Each node appends blocks of its own, pushes *)
(* blocks of its store to the other node's receive endpoints as            *)
(* broadcastBlock and the gossip loop do, and fetches the other node's     *)
(* chain with syncWithPeer; pushes and syncs are attempted again and       *)
(* again.  lastOp, req and ret record the request served last.             *)
(***************************************************************************)
\* The payload of the blocks the second node appends.
RemoteKit == MedicalKit("KIT-2", "Emergency", "Nairobi", 4, "B", 0, HqKey)

\* What a node answers to a request at a receive endpoint.
answer(s, request) ==
  LET status == authGuard(request.path, request.token)
  IN IF status # 0 THEN [status |-> status, store |-> s]
     ELSE IF request.path = "/receive-block" THEN receiveBlock(s, request.block)
     ELSE blocksReceive(s, request.block)

\* GET /sync as axios.get(`${peerUrl}/sync`) sees it: the request carries no
\* cookie, and a response that is not 2xx is an error.
getSync(s) ==
  IF authGuard("/sync", "none") # 0 THEN Unreachable
  ELSE [kind |-> "chain", chain |-> getFullChain(s)]

\* The second node appends a block.
RemoteAddBlock(data) ==
  /\ nextIndex(remote) < MaxBlocks
  /\ \E t1 \in clock..MaxClock : \E t2 \in t1..MaxClock :
       /\ remote' = addBlock(remote, data, t1, t2)
       /\ clock' = t2
  /\ lastOp' = "remote addBlock"
  /\ UNCHANGED <<store, startup, req, ret, chain, edits, valid, report,
                 marketVars, gossipVars>>

\* The first node posts a block of its store to the second node.
PushToRemote(path, block) ==
  /\ LET request == pushRequest(path, block)
         r == answer(remote, request)
     IN /\ remote' = r.store
        /\ ret' = (r.status = 200)
        /\ req' = Received(request, r.status)
  /\ lastOp' = "remote POST " \o path
  /\ UNCHANGED <<store, startup, clock, chain, edits, valid, report,
                 marketVars, gossipVars>>

\* The second node posts a block of its store to the first node.
PushToLocal(path, block) ==
  /\ LET request == pushRequest(path, block)
         r == answer(store, request)
     IN /\ store' = r.store
        /\ ret' = (r.status = 200)
        /\ req' = Received(request, r.status)
  /\ lastOp' = "POST " \o path
  /\ UNCHANGED <<clock, chain, edits, valid, report, marketVars, gossipVars,
                 networkVars>>

\* The first node runs syncWithPeer against the second node.
SyncFromRemote ==
  /\ store' = P2PServer_syncWithPeer(store, getSync(remote)).store
  /\ ret' = P2PServer_syncWithPeer(store, getSync(remote)).ret
  /\ lastOp' = "P2PServer.syncWithPeer"
  /\ req' = Synced(getSync(remote))
  /\ UNCHANGED <<clock, chain, edits, valid, report, marketVars, gossipVars,
                 networkVars>>

\* The second node runs syncWithPeer against the first node.
SyncFromLocal ==
  /\ remote' = P2PServer_syncWithPeer(remote, getSync(store)).store
  /\ ret' = P2PServer_syncWithPeer(remote, getSync(store)).ret
  /\ lastOp' = "remote P2PServer.syncWithPeer"
  /\ req' = Synced(getSync(store))
  /\ UNCHANGED <<store, startup, clock, chain, edits, valid, report,
                 marketVars, gossipVars>>

ReceivePaths == {"/receive-block", "/blocks/receive"}

StoredBlocks(s) == {s[i] : i \in DOMAIN s}

NextNetwork ==
  \/ AddBlock(SentKit)
  \/ RemoteAddBlock(RemoteKit)
  \/ \E path \in ReceivePaths, block \in StoredBlocks(store) : PushToRemote(path, block)
  \/ \E path \in ReceivePaths, block \in StoredBlocks(remote) : PushToLocal(path, block)
  \/ SyncFromRemote
  \/ SyncFromLocal

SpecNetwork == Init /\ [][NextNetwork]_vars

\* Pushes and syncs keep being attempted in both directions.
FairSpecNetwork ==
  /\ SpecNetwork
  /\ \A path \in ReceivePaths :
       /\ WF_vars(\E block \in StoredBlocks(store) : PushToRemote(path, block))
       /\ WF_vars(\E block \in StoredBlocks(remote) : PushToLocal(path, block))
  /\ WF_vars(SyncFromRemote)
  /\ WF_vars(SyncFromLocal)

\* C34: eventual consistency of two mutually registered, always reachable
\* nodes: once the local appends have stopped and pushes and syncs keep being
\* attempted, both stores hold the same chain from some point on, also when
\* each node had appended a different block at the same index.
C34_EventuallyConsistent == <>[](getFullChain(store) = getFullChain(remote))

====
